---- MODULE Spec2Model ----
(***************************************************************************)
(* A model of two parts of realm-core:                                     *)
(*                                                                         *)
(*  - the radix-tree integer index (src/realm/radix_tree.cpp,               *)
(*    radix_tree.hpp): IndexKey, IndexNode and RadixTree, with the node    *)
(*    array kept slot for slot (population bitmaps, prefix size and        *)
(*    payload, nulls slot, children);                                      *)
(*  - the client reset (src/realm/sync/noinst/client_reset.cpp).           *)
(*                                                                         *)
(* Machine words are WordBits wide instead of 64 so that every word fits   *)
(* TLC's integers; every place where the source writes 64 or 63 is         *)
(* written WordBits or WordBits - 1 here.  ChunkWidth is the template      *)
(* parameter of IndexKey / RadixTree.                                      *)
(***************************************************************************)
EXTENDS Integers, Sequences, FiniteSets, TLC

VARIABLES
    root,      \* RadixTree::m_array: the root IndexNode, an array of slots
    column,    \* ClusterColumn m_target_column: ObjKey -> Mixed of the indexed rows
    aborted    \* TRUE once a REALM_ASSERT of the index code has failed

radix_vars == <<root, column, aborted>>

VARIABLES
    db_local,     \* the committed local Realm file: [tables, file_ident]
    db_remote,    \* the committed fresh Realm file downloaded from the server: its tables
    wt_local,     \* the write transaction on db_local: [tables, file_ident]
    wt_remote,    \* the write transaction on db_remote: its tables
    frozen_pre_local_state, \* db_local as perform_client_reset_diff found it
    local_changes,  \* the local changesets of the sync history not yet uploaded
    requested_mode, \* the ClientResyncMode perform_client_reset_diff is called with
    mode,           \* the mode reset_precheck_guard returned
    recovery_is_allowed, \* parameter of perform_client_reset_diff
    sub_store,      \* TRUE iff a SubscriptionStore is passed (flexible sync)
    pc,             \* how far perform_client_reset_diff has got
    outcome,        \* "none", "ok" or the exception that ended the reset
    thrown_by       \* the function that threw that exception

reset_vars == <<db_local, db_remote, wt_local, wt_remote, frozen_pre_local_state,
                local_changes, requested_mode, mode, recovery_is_allowed,
                sub_store, pc, outcome, thrown_by>>

VARIABLES
    realm,    \* the Realm a Results reads: its table, its list of values, its transaction
    results,  \* the Results the calls are made on
    derived,  \* the Results the last call returned, NoResults if it returned none
    call      \* the last call on results: its name, arguments, exception and value

results_vars == <<realm, results, derived, call>>

VARIABLES
    this_group, \* the Group: the names of its tables, its cascade handler, attached or not
    graph,    \* the objects of the target table, the links and the backlinks to them
    cascade,  \* the CascadeState of the removal under way, the notifications delivered
    gcall     \* the last call on the group or on a set

group_vars == <<this_group, graph, cascade, gcall>>

VARIABLES
    index_key,  \* an IndexKey: its ChunkWidth, its Mixed, its offset, the chunks read from it
    index_node, \* one IndexNode on its own: its array, the chunks that have an entry in it
    this_db     \* a DB: its heap of nodes, its snapshots, its free list, its transactions

VARIABLES
    flx_reset   \* a flexible-sync reset: the subscription sets, the commits it has made

\* the variables of the models that refine a part of the four above
extra_vars == <<flx_reset>>

\* the variables of the models that stand apart from the four above
aux_vars == <<index_key, index_node, this_db, extra_vars>>

vars == <<radix_vars, reset_vars, results_vars, group_vars, aux_vars>>

\* no IndexKey is read on its own in the behaviours of the other models
key_not_running == index_key = <<>>

node_not_running == index_node = <<>>

db_not_running == this_db = <<>>

flx_not_running == flx_reset = <<>>

extra_not_running == flx_not_running

aux_not_running ==
    key_not_running /\ node_not_running /\ db_not_running /\ extra_not_running

\* no Group is part of the behaviours of the other models
group_not_running ==
    /\ this_group = <<>>
    /\ graph = <<>>
    /\ cascade = <<>>
    /\ gcall = <<>>

\* no Results is part of the behaviours of the index or of the client reset
results_not_running ==
    /\ realm = <<>>
    /\ results = <<>>
    /\ derived = <<>>
    /\ call = <<>>

\* the client reset is not part of the behaviours of the index
reset_not_running ==
    /\ db_local = <<>>
    /\ db_remote = <<>>
    /\ wt_local = <<>>
    /\ wt_remote = <<>>
    /\ frozen_pre_local_state = <<>>
    /\ local_changes = <<>>
    /\ requested_mode = "Manual"
    /\ mode = "Manual"
    /\ recovery_is_allowed = FALSE
    /\ sub_store = FALSE
    /\ pc = "idle"
    /\ outcome = "none"
    /\ thrown_by = "none"

(***************************************************************************)
(* Word arithmetic                                                         *)
(***************************************************************************)
WordBits == 8

ChunkWidth == 3

RECURSIVE Pow2(_)
Pow2(n) == IF n = 0 THEN 1 ELSE 2 * Pow2(n - 1)

\* uint64_t(x)
ToUnsigned(x) == x % Pow2(WordBits)

\* x << n and x >> n on an unsigned word; a shift by the word width or more
\* is not used by the callers below
ShiftLeft(x, n) == (x * Pow2(n)) % Pow2(WordBits)

ShiftRight(x, n) == x \div Pow2(n)

RECURSIVE BitAnd(_, _)
BitAnd(a, b) ==
    IF a = 0 \/ b = 0 THEN 0
    ELSE (a % 2) * (b % 2) + 2 * BitAnd(a \div 2, b \div 2)

TestBit(x, n) == (x \div Pow2(n)) % 2 = 1

RECURSIVE fast_popcount64(_)
fast_popcount64(x) == IF x = 0 THEN 0 ELSE (x % 2) + fast_popcount64(x \div 2)

\* position of the n-th (0-based) set bit of word
RECURSIVE index_of_nth_bit(_, _)
index_of_nth_bit(word, n) ==
    IF word % 2 = 1
    THEN IF n = 0 THEN 0 ELSE 1 + index_of_nth_bit(word \div 2, n - 1)
    ELSE 1 + index_of_nth_bit(word \div 2, n)

(***************************************************************************)
(* Mixed and ObjKey                                                        *)
(***************************************************************************)
MixedNull == [is_null |-> TRUE, int |-> 0]

MixedInt(i) == [is_null |-> FALSE, int |-> i]

\* ObjKey(): the null key
null_key == -1

value_can_be_tagged_without_overflow(val) == val >= 0

(***************************************************************************)
(* IndexKey<ChunkWidth>                                                    *)
(***************************************************************************)
c_key_chunks_per_prefix == (WordBits - 1) \div ChunkWidth

c_int_mask == ShiftLeft(ShiftRight(Pow2(WordBits) - 1, WordBits - ChunkWidth), WordBits - ChunkWidth)

\* IndexKey::get() of a non-null key at chunk offset off
IndexKey_get(int, off) ==
    LET rshift0 == (1 + off) * ChunkWidth
        rshift  == IF rshift0 < WordBits THEN WordBits - rshift0 ELSE 0
    IN  ShiftRight(BitAnd(ToUnsigned(int), ShiftRight(c_int_mask, off * ChunkWidth)), rshift)

IndexKey_is_last(m, off) ==
    IF m.is_null THEN TRUE ELSE (off * ChunkWidth) + ChunkWidth >= WordBits

\* IndexKey::advance_chunks(num_chunks): the chunks read, the offset grows by their number
RECURSIVE advance_chunks(_, _, _)
advance_chunks(m, off, num_chunks) ==
    IF IndexKey_is_last(m, off) \/ num_chunks = 0 THEN <<>>
    ELSE <<IndexKey_get(m.int, off)>> \o advance_chunks(m, off + 1, num_chunks - 1)

\* realm::npos as a number of chunks: more than any key has
npos_chunks == WordBits

(***************************************************************************)
(* Array slots.  Every element of an IndexNode is a RefOrTagged value: a   *)
(* tagged integer, the zero ref, a ref to a list of ObjKeys (an            *)
(* IntegerColumn, context flag clear) or a ref to an IndexNode (context    *)
(* flag set).  A ref is modelled by the array it points to.                *)
(***************************************************************************)
Tagged(v) == [k |-> "tagged", v |-> v, l |-> <<>>, n |-> <<>>]

Ref0 == [k |-> "ref0", v |-> 0, l |-> <<>>, n |-> <<>>]

ListRef(l) == [k |-> "list", v |-> 0, l |-> l, n |-> <<>>]

NodeRef(n) == [k |-> "node", v |-> 0, l |-> <<>>, n |-> n]

c_ndx_of_population_0 == 0

c_ndx_of_population_1 == 1

c_ndx_of_prefix_size == 2

c_ndx_of_prefix_payload == 3

c_ndx_of_null == 4

c_num_metadata_entries == 5

\* Array::get / set / insert / erase / add / size, with the source's 0-based indices
Array_get(arr, ndx) == arr[ndx + 1]

Array_set(arr, ndx, slot) == [arr EXCEPT ![ndx + 1] = slot]

Array_insert(arr, ndx, slot) ==
    SubSeq(arr, 1, ndx) \o <<slot>> \o SubSeq(arr, ndx + 1, Len(arr))

Array_erase(arr, ndx) == SubSeq(arr, 1, ndx) \o SubSeq(arr, ndx + 2, Len(arr))

Array_add(arr, slot) == Append(arr, slot)

Array_size(arr) == Len(arr)

\* uint64_t(get(ndx)) >> 1 of a slot that holds a tagged integer or zero
RawShift1(slot) == IF slot.k = "tagged" THEN slot.v ELSE 0

\* get(ndx) != 0
SlotNonZero(slot) == slot.k # "ref0"

(***************************************************************************)
(* IndexNode                                                               *)
(***************************************************************************)
get_population_0(arr) == RawShift1(Array_get(arr, c_ndx_of_population_0))

get_population_1(arr) == RawShift1(Array_get(arr, c_ndx_of_population_1))

set_population_0(arr, pop) == Array_set(arr, c_ndx_of_population_0, Tagged(pop))

set_population_1(arr, pop) == Array_set(arr, c_ndx_of_population_1, Tagged(pop))

\* IndexNode::create: five metadata entries, both populations tagged zero
IndexNode_create ==
    set_population_1(set_population_0(
        <<Ref0, Ref0, Ref0, Ref0, Ref0>>, 0), 0)

IndexNode_is_empty(arr) ==
    /\ get_population_0(arr) = 0
    /\ get_population_1(arr) = 0
    /\ ~SlotNonZero(Array_get(arr, c_ndx_of_null))

\* the condition asserted by IndexNode::verify
IndexNode_verify(arr) ==
    /\ Array_size(arr) >= c_num_metadata_entries
    /\ fast_popcount64(get_population_0(arr)) + fast_popcount64(get_population_1(arr))
          + c_num_metadata_entries = Array_size(arr)

\* the lambda unpack_prefix of get_prefix: c_key_chunks_per_prefix chunks of a packed word
unpack_prefix(packed_value) ==
    [i \in 1..c_key_chunks_per_prefix |-> IndexKey_get(packed_value, i - 1)]

\* IndexNode::get_prefix.  For integer keys the prefix never needs more than
\* one packed word, so the payload is a tagged value or the zero ref.
get_prefix(arr) ==
    LET rot_size    == Array_get(arr, c_ndx_of_prefix_size)
        num_chunks  == IF rot_size.k = "tagged" THEN rot_size.v ELSE 0
        rot_payload == Array_get(arr, c_ndx_of_prefix_payload)
    IN  IF num_chunks = 0 THEN <<>>
        ELSE IF rot_payload.k = "ref0" THEN [i \in 1..num_chunks |-> 0]
        ELSE LET all == unpack_prefix(ShiftLeft(rot_payload.v, 1))
             IN  IF Len(all) > num_chunks THEN SubSeq(all, 1, num_chunks) ELSE all

\* the packing loop of set_prefix for a prefix of at most c_key_chunks_per_prefix chunks
RECURSIVE pack_prefix(_, _)
pack_prefix(prefix, i) ==
    IF i > Len(prefix) THEN 0
    ELSE ShiftLeft(prefix[i], WordBits - (i * ChunkWidth)) + pack_prefix(prefix, i + 1)

\* IndexNode::set_prefix
set_prefix(arr, prefix) ==
    LET sized == Array_set(arr, c_ndx_of_prefix_size, Tagged(Len(prefix)))
    IN  IF Len(prefix) = 0 THEN sized
        ELSE Array_set(sized, c_ndx_of_prefix_payload,
                       Tagged(ShiftRight(pack_prefix(prefix, 1), 1)))

\* IndexNode::do_insert_to_population
do_insert_to_population(arr, value) ==
    IF value < WordBits - 1
    THEN LET population == get_population_0(arr)
             existed    == TestBit(population, value)
             pop2       == IF existed THEN population ELSE population + Pow2(value)
         IN  [arr       |-> IF existed THEN arr ELSE set_population_0(arr, pop2),
              did_exist  |-> existed,
              real_index |-> c_num_metadata_entries
                              + fast_popcount64(ShiftLeft(pop2, (WordBits - 1) - value)) - 1]
    ELSE LET value1       == value - (WordBits - 1)
             population_0 == get_population_0(arr)
             population_1 == get_population_1(arr)
             existed      == TestBit(population_1, value1)
             pop2         == IF existed THEN population_1 ELSE population_1 + Pow2(value1)
         IN  [arr       |-> IF existed THEN arr ELSE set_population_1(arr, pop2),
              did_exist  |-> existed,
              real_index |-> c_num_metadata_entries
                              + fast_popcount64(ShiftLeft(pop2, (WordBits - 1) - value1))
                              + fast_popcount64(population_0) - 1]

index_of_mut(arr, value) ==
    IF value < WordBits - 1
    THEN IF ~TestBit(get_population_0(arr), value) THEN -1
         ELSE c_num_metadata_entries + fast_popcount64(get_population_0(arr)) - 1
    ELSE IF ~TestBit(get_population_1(arr), value - (WordBits - 1)) THEN -1
         ELSE c_num_metadata_entries + fast_popcount64(get_population_1(arr))
                + fast_popcount64(get_population_0(arr)) - 1

\* IndexNode::index_of for a non-null key chunk: -1 stands for std::nullopt
index_of(arr, value) ==
    IF value < WordBits - 1
    THEN LET population == get_population_0(arr)
         IN  IF ~TestBit(population, value) THEN -1
             ELSE c_num_metadata_entries
                    + fast_popcount64(ShiftLeft(population, (WordBits - 1) - value)) - 1
    ELSE LET value1       == value - (WordBits - 1)
             population_0 == get_population_0(arr)
             population_1 == get_population_1(arr)
         IN  IF ~TestBit(population_1, value1) THEN -1
             ELSE c_num_metadata_entries
                    + fast_popcount64(ShiftLeft(population_1, (WordBits - 1) - value1))
                    + fast_popcount64(population_0) - 1

\* IndexNode::do_remove: the array after the removal; the returned flag is is_empty of it
do_remove(arr, raw_index) ==
    IF raw_index = c_ndx_of_null THEN Array_set(arr, c_ndx_of_null, Ref0)
    ELSE LET erased       == Array_erase(arr, raw_index)
             population_0 == get_population_0(erased)
             population_1 == get_population_1(erased)
             bit_n        == raw_index - c_num_metadata_entries
             bits_in_population_0 == fast_popcount64(population_0)
         IN  IF bits_in_population_0 > bit_n
             THEN set_population_0(erased,
                      population_0 - Pow2(index_of_nth_bit(population_0, bit_n)))
             ELSE set_population_1(erased,
                      population_1 - Pow2(index_of_nth_bit(population_1, bit_n - bits_in_population_0)))

\* the length of the common leading part of two chunk sequences
RECURSIVE common_prefix_len(_, _, _)
common_prefix_len(a, b, n) ==
    IF n < Len(a) /\ n < Len(b) /\ a[n + 1] = b[n + 1]
    THEN common_prefix_len(a, b, n + 1)
    ELSE n

\* IndexNode::do_prefix_insert: the node after it and the key's new offset
do_prefix_insert(arr, m, off) ==
    IF IndexNode_is_empty(arr)
    THEN LET prefix == advance_chunks(m, off, npos_chunks)
         IN  [arr |-> set_prefix(arr, prefix), off |-> off + Len(prefix)]
    ELSE
    LET existing_prefix == get_prefix(arr) IN
    IF Len(existing_prefix) = 0 THEN [arr |-> arr, off |-> off]
    ELSE
    LET possible_shared_prefix   == advance_chunks(m, off, Len(existing_prefix))
        ndx_of_last_shared_chunk == common_prefix_len(existing_prefix, possible_shared_prefix, 0)
    IN  IF ndx_of_last_shared_chunk = Len(existing_prefix)
        THEN [arr |-> arr, off |-> off + Len(possible_shared_prefix)]
        ELSE \* split the prefix
        LET shared_prefix    == SubSeq(possible_shared_prefix, 1, ndx_of_last_shared_chunk)
            prefix_to_move   == SubSeq(existing_prefix, ndx_of_last_shared_chunk + 1,
                                       Len(existing_prefix))
            \* Array::move(*split_node, 0), then five zero entries in this node
            moved            == arr
            fresh            == <<Ref0, Ref0, Ref0, Ref0, Ref0>>
            this1            == Array_set(fresh, c_ndx_of_null, Array_get(moved, c_ndx_of_null))
            split1           == Array_set(moved, c_ndx_of_null, Ref0)
            population_split == prefix_to_move[1]
            split_node       == set_prefix(split1, Tail(prefix_to_move))
            this2            == set_prefix(this1, shared_prefix)
            this3            == do_insert_to_population(this2, population_split).arr
        IN  [arr |-> Array_add(this3, NodeRef(split_node)),
             off |-> off + ndx_of_last_shared_chunk]

do_add_direct_mut(arr, value, ndx, m, off) ==
    LET rot == Array_get(arr, ndx) IN
    IF rot.k = "tagged"
    THEN [arr |-> IF rot.v # value
                  THEN Array_set(arr, ndx, ListRef(IF rot.v < value THEN <<rot.v, value>>
                                                   ELSE <<value, rot.v>>))
                  ELSE arr,
          ok  |-> IndexKey_is_last(m, off)]
    ELSE IF rot.k = "ref0"
    THEN [arr |-> IF value_can_be_tagged_without_overflow(value)
                  THEN Array_set(arr, ndx, Tagged(value))
                  ELSE Array_set(arr, ndx, ListRef(<<value>>)),
          ok  |-> ndx = c_ndx_of_null]
    ELSE [arr |-> IF \E i \in 1..Len(rot.l) : rot.l[i] = value THEN arr
                  ELSE Array_set(arr, ndx, ListRef(Append(rot.l, value))),
          ok  |-> IndexKey_is_last(m, off)]

\* IndexNode::do_add_direct at a slot that is not a sub index node:
\* the node after it; ok is FALSE when one of its assertions fails
do_add_direct(arr, value, ndx, m, off) ==
    LET rot == Array_get(arr, ndx) IN
    IF rot.k = "tagged"
    THEN LET existing == rot.v
             row_list == IF existing < value THEN <<existing, value>> ELSE <<value, existing>>
         IN  [arr |-> IF existing # value THEN Array_set(arr, ndx, ListRef(row_list)) ELSE arr,
              ok  |-> IndexKey_is_last(m, off) /\ existing # value]
    ELSE IF rot.k = "ref0"
    THEN [arr |-> IF ndx # c_ndx_of_null THEN arr
                  ELSE IF value_can_be_tagged_without_overflow(value)
                       THEN Array_set(arr, ndx, Tagged(value))
                       ELSE Array_set(arr, ndx, ListRef(<<value>>)),
          ok  |-> ndx = c_ndx_of_null]
    ELSE \* ref to the list: find_first gives npos when absent, insert(npos) appends
         LET found == \E i \in 1..Len(rot.l) : rot.l[i] = value
         IN  [arr |-> IF found THEN arr ELSE Array_set(arr, ndx, ListRef(Append(rot.l, value))),
              ok  |-> IndexKey_is_last(m, off) /\ ~found]

\* cur_node->Array::insert(real_index, new_node->get_ref()) with the node the
\* rest of the loop makes of new_node
insert_new_node(result, sub) ==
    [arr |-> Array_insert(result.arr, result.real_index, NodeRef(sub.arr)), ok |-> sub.ok]

\* the sub index node of do_add_direct, as the rest of the loop leaves it
insert_sub_node(result, sub) ==
    [arr |-> Array_set(result.arr, result.real_index, NodeRef(sub.arr)), ok |-> sub.ok]

\* The loop of IndexNode::insert for a non-null key, from the node cur_node on.
\* One turn of the loop is insert_loop (insert_to_population: the prefix, then
\* the population) followed by insert_at_population (the branch on did_exist).
RECURSIVE insert_loop(_, _, _, _)
RECURSIVE insert_at_population(_, _, _, _)
insert_at_population(result, value, m, off1) ==
    IF ~result.did_exist
    THEN IF IndexKey_is_last(m, off1)
         THEN IF value_can_be_tagged_without_overflow(value)
              THEN [arr |-> Array_insert(result.arr, result.real_index, Tagged(value)),
                    ok  |-> TRUE]
              ELSE \* Array::set on a slot that was not inserted: set asserts
                   \* ndx < size, and otherwise verify fails on the size
                   [arr |-> IF result.real_index < Array_size(result.arr)
                            THEN Array_set(result.arr, result.real_index, ListRef(<<value>>))
                            ELSE result.arr,
                    ok  |-> FALSE]
         ELSE insert_new_node(result, insert_loop(IndexNode_create, value, m, off1 + 1))
    ELSE IF Array_get(result.arr, result.real_index).k = "node"
         THEN insert_sub_node(result,
                  insert_loop(Array_get(result.arr, result.real_index).n, value, m, off1 + 1))
         ELSE do_add_direct(result.arr, value, result.real_index, m, off1)

insert_after_prefix(pre, value, m) ==
    insert_at_population(do_insert_to_population(pre.arr, IndexKey_get(m.int, pre.off)),
                         value, m, pre.off)

insert_loop(cur_node, value, m, off) ==
    insert_after_prefix(do_prefix_insert(cur_node, m, off), value, m)

\* IndexNode::insert
IndexNode_insert(arr, value, m) ==
    IF m.is_null
    THEN do_add_direct(arr, value, c_ndx_of_null, m, 0)
    ELSE insert_loop(arr, value, m, 0)

\* The result of find_first: IndexIterator's m_key, whether m_list_position is
\* set, and the list the last position refers to
NotFound == [m_key |-> null_key, has_list_position |-> FALSE, list |-> <<>>]

\* the prefix match at the head of find_first's loop
prefix_matches(prefix, m, off) ==
    \A i \in 1..Len(prefix) : IndexKey_get(m.int, off + i - 1) = prefix[i]

\* the loop of IndexNode::find_first for a non-null key
RECURSIVE find_first_loop(_, _, _)
find_first_loop(cur_node, m, off) ==
    LET cur_prefix == get_prefix(cur_node)
        off1       == off + Len(cur_prefix)
        ndx        == index_of(cur_node, IndexKey_get(m.int, off1))
    IN  IF ~prefix_matches(cur_prefix, m, off) THEN NotFound
        ELSE IF ndx = -1 THEN NotFound
        ELSE LET rot == Array_get(cur_node, ndx) IN
             IF rot.k = "tagged"
             THEN [m_key |-> rot.v, has_list_position |-> FALSE, list |-> <<>>]
             ELSE IF rot.k = "list"
             THEN [m_key |-> rot.l[1], has_list_position |-> TRUE, list |-> rot.l]
             ELSE find_first_loop(rot.n, m, off1 + 1)

\* IndexNode::find_first
IndexNode_find_first(arr, m) ==
    IF m.is_null
    THEN LET rot == Array_get(arr, c_ndx_of_null) IN
         IF rot.k = "ref0" THEN NotFound
         ELSE IF rot.k = "list"
         THEN [m_key |-> rot.l[1], has_list_position |-> TRUE, list |-> rot.l]
         ELSE [m_key |-> rot.v, has_list_position |-> FALSE, list |-> <<>>]
    ELSE find_first_loop(arr, m, 0)

\* IndexNode::find_all: the results vector
IndexNode_find_all(arr, m) ==
    LET it == IndexNode_find_first(arr, m) IN
    IF it.m_key = null_key THEN <<>>
    ELSE IF ~it.has_list_position THEN <<it.m_key>>
    ELSE it.list

\* IndexIterator::num_matches, the result of RadixTree::count
num_matches(it) ==
    IF it.m_key = null_key THEN 0
    ELSE IF ~it.has_list_position THEN 1
    ELSE Len(it.list)   \* sz - *m_list_position, the position being 0

\* sub.erase(sub.find_first(value)) on a list of ObjKeys
RECURSIVE list_erase_first(_, _)
list_erase_first(l, value) ==
    IF Len(l) = 0 THEN l
    ELSE IF Head(l) = value THEN Tail(l)
    ELSE <<Head(l)>> \o list_erase_first(Tail(l), value)

\* the result of a do_remove: its return value is is_empty of the node
erase_removed(removed) ==
    [arr |-> removed, ok |-> TRUE, collapse |-> IndexNode_is_empty(removed)]

\* the list at ndx after sub.erase; an emptied list is destroyed and removed
erase_from_list(node, ndx, sub) ==
    IF Len(sub) = 0 THEN erase_removed(do_remove(node, ndx))
    ELSE [arr |-> Array_set(node, ndx, ListRef(sub)), ok |-> TRUE, collapse |-> FALSE]

\* the removal at the position find_first returned (a tagged ObjKey or a list)
erase_at(node, ndx, value) ==
    IF Array_get(node, ndx).k = "list"
    THEN IF \E i \in 1..Len(Array_get(node, ndx).l) : Array_get(node, ndx).l[i] = value
         THEN erase_from_list(node, ndx, list_erase_first(Array_get(node, ndx).l, value))
         ELSE [arr |-> node, ok |-> FALSE, collapse |-> FALSE]
    ELSE erase_removed(do_remove(node, ndx))

\* the loop of IndexNode::erase that removes an emptied node from its parent:
\* sub is the child at ndx after the erase below it
erase_collapse(cur_node, ndx, sub) ==
    IF sub.ok /\ sub.collapse
    THEN erase_removed(do_remove(cur_node, ndx))
    ELSE [arr |-> Array_set(cur_node, ndx, NodeRef(sub.arr)), ok |-> sub.ok,
          collapse |-> FALSE]

\* IndexNode::erase below the root's nulls: the walk of find_first, the removal
\* at the last node, and the loop that removes emptied nodes from their parents
RECURSIVE erase_loop(_, _, _, _)
RECURSIVE erase_at_index(_, _, _, _, _)
erase_at_index(cur_node, ndx, value, m, off1) ==
    IF ndx = -1
    THEN [arr |-> cur_node, ok |-> FALSE, collapse |-> FALSE]
    ELSE IF Array_get(cur_node, ndx).k = "node"
    THEN erase_collapse(cur_node, ndx,
                        erase_loop(Array_get(cur_node, ndx).n, value, m, off1 + 1))
    ELSE erase_at(cur_node, ndx, value)

erase_loop(cur_node, value, m, off) ==
    IF ~prefix_matches(get_prefix(cur_node), m, off)
    THEN [arr |-> cur_node, ok |-> FALSE, collapse |-> FALSE]
    ELSE erase_at_index(cur_node,
             index_of(cur_node, IndexKey_get(m.int, off + Len(get_prefix(cur_node)))),
             value, m, off + Len(get_prefix(cur_node)))

\* IndexNode::erase
IndexNode_erase(arr, value, m) ==
    IF m.is_null
    THEN IF Array_get(arr, c_ndx_of_null).k = "ref0"
         THEN [arr |-> arr, ok |-> FALSE, collapse |-> FALSE]
         ELSE erase_at(arr, c_ndx_of_null, value)
    ELSE erase_loop(arr, value, m, 0)

\* IndexNode::clear: children and nulls destroyed, populations zero, prefix kept
IndexNode_clear(arr) ==
    set_population_1(set_population_0(
        Array_set(SubSeq(arr, 1, c_num_metadata_entries), c_ndx_of_null, Ref0), 0), 0)

\* the walk of IndexNode::has_duplicate_values over a node and its sub nodes
RECURSIVE has_list_below(_)
has_list_below(arr) ==
    \E i \in c_ndx_of_null..(Array_size(arr) - 1) :
        LET rot == Array_get(arr, i)
        IN  \/ rot.k = "list"
            \/ rot.k = "node" /\ has_list_below(rot.n)

\* IndexNode::has_duplicate_values
IndexNode_has_duplicate_values(arr) ==
    \/ Array_get(arr, c_ndx_of_null).k = "list"
    \/ has_list_below(arr)

(***************************************************************************)
(* RadixTree<ChunkWidth> over its target column                            *)
(***************************************************************************)
MaxObjKey == 1

\* the ObjKeys of live rows, and one tombstone key (high bit set)
LiveKeys == 0..MaxObjKey

TombstoneKeys == {-2}

ObjKeys == LiveKeys \cup TombstoneKeys

IntValues == {1, 4, -1}

Values == {MixedNull} \cup {MixedInt(i) : i \in IntValues}

RadixTree_find_first(m) == IndexNode_find_first(root, m).m_key

RadixTree_find_all(m) == IndexNode_find_all(root, m)

RadixTree_count(m) == num_matches(IndexNode_find_first(root, m))

RadixTree_has_duplicate_values == IndexNode_has_duplicate_values(root)

RadixTree_is_empty == IndexNode_is_empty(root)

\* m_target_column.get_value(key)
get_value(key) == column[key]

column_without(key) == [x \in (DOMAIN column) \ {key} |-> column[x]]

column_with(col, key, m) == [x \in (DOMAIN col) \cup {key} |-> IF x = key THEN m ELSE col[x]]

RadixInit ==
    /\ root = IndexNode_create
    /\ column = <<>>
    /\ aborted = FALSE
    /\ reset_not_running
    /\ results_not_running
    /\ group_not_running
    /\ aux_not_running

\* the root after an IndexNode operation; a failed assertion ends the program
index_becomes(r) ==
    /\ root' = r.arr
    /\ aborted' = ~r.ok

\* the insert of RadixTree::set, on the index as its erase left it
insert_after_erase(e, key, new_value) ==
    IF e.ok THEN index_becomes(IndexNode_insert(e.arr, key, new_value))
    ELSE index_becomes(e)

\* RadixTree::insert(ObjKey, Mixed) for a row that is not indexed yet
RadixTree_insert(key, m) ==
    /\ ~aborted
    /\ key \notin DOMAIN column
    /\ index_becomes(IndexNode_insert(root, key, m))
    /\ column' = column_with(column, key, m)
    /\ UNCHANGED <<reset_vars, results_vars, group_vars, aux_vars>>

\* RadixTree::erase(ObjKey): the value is read from the target column
RadixTree_erase(key) ==
    /\ ~aborted
    /\ key \in DOMAIN column
    /\ index_becomes(IndexNode_erase(root, key, get_value(key)))
    /\ column' = column_without(key)
    /\ UNCHANGED <<reset_vars, results_vars, group_vars, aux_vars>>

\* RadixTree::set(ObjKey, new_value): erase then insert when the value changes
RadixTree_set(key, new_value) ==
    /\ ~aborted
    /\ key \in DOMAIN column
    /\ new_value # get_value(key)
    /\ insert_after_erase(IndexNode_erase(root, key, get_value(key)), key, new_value)
    /\ column' = column_with(column, key, new_value)
    /\ UNCHANGED <<reset_vars, results_vars, group_vars, aux_vars>>

\* RadixTree::clear, with the rows of the table removed
RadixTree_clear ==
    /\ ~aborted
    /\ root' = IndexNode_clear(root)
    /\ column' = <<>>
    /\ UNCHANGED aborted
    /\ UNCHANGED <<reset_vars, results_vars, group_vars, aux_vars>>

RadixNext ==
    \/ \E key \in ObjKeys, m \in Values : RadixTree_insert(key, m)
    \/ \E key \in ObjKeys : RadixTree_erase(key)
    \/ \E key \in ObjKeys, m \in Values : RadixTree_set(key, m)
    \/ RadixTree_clear

RadixSpec == RadixInit /\ [][RadixNext]_vars

(***************************************************************************)
(* Claims about the index                                                  *)
(***************************************************************************)
\* the reference multimap: the ObjKeys of the rows that hold the value
keys_of(m) == {key \in DOMAIN column : column[key] = m}

seq_to_set(q) == {q[i] : i \in 1..Len(q)}

find_agrees_with_column(m) ==
    /\ seq_to_set(RadixTree_find_all(m)) = keys_of(m)
    /\ Len(RadixTree_find_all(m)) = Cardinality(keys_of(m))
    /\ RadixTree_count(m) = Cardinality(keys_of(m))
    /\ (RadixTree_find_first(m) = null_key) <=> (keys_of(m) = {})

\* C1: after any sequence of insert, erase and set the index is usable (no
\* assertion of it has failed) and for every value v, null and negative
\* integers included, find_all(v) is exactly the set of ObjKeys the column
\* holds for v, count(v) is its size and find_first(v) is null iff it is empty
C1_FindMatchesReference ==
    /\ ~aborted
    /\ \A m \in Values : find_agrees_with_column(m)

\* the part of C1 that the code keeps: whenever no assertion has failed the
\* lookups agree with the column
C1_FindMatchesWhileRunning ==
    ~aborted => \A m \in Values : find_agrees_with_column(m)

some_value_is_duplicated == \E m \in Values : Cardinality(keys_of(m)) >= 2

\* C2: has_duplicate_values() is true exactly when some value (null included)
\* is indexed for two or more ObjKeys
C2_HasDuplicatesExact ==
    ~aborted => (RadixTree_has_duplicate_values <=> some_value_is_duplicated)

\* C3: once every inserted (ObjKey, value) pair has been erased again, or after
\* clear(), is_empty() is true, count(null) is 0 and find_first(null) is the
\* null ObjKey
C3_EmptyAfterAllErased ==
    (~aborted /\ DOMAIN column = {}) =>
        /\ RadixTree_is_empty
        /\ RadixTree_count(MixedNull) = 0
        /\ RadixTree_find_first(MixedNull) = null_key

(***************************************************************************)
(* Groups of tables, as the client reset reads and writes them              *)
(*                                                                         *)
(* A table name is the pair <<prefix, class name>>; a group is a function  *)
(* from table names to tables; a table is                                   *)
(*   [table_type, pk_col, cols, rows]                                       *)
(* with pk_col the name of the primary key column (NoCol: none), cols a    *)
(* function from column names to ColKeys and rows a function from primary  *)
(* key values to objects (functions from column names to values).          *)
(***************************************************************************)
g_class_name_prefix == "class_"

\* Group::table_is_public: the name begins with "class_"
table_is_public(name) == name[1] = g_class_name_prefix

should_skip_table_mut(name) == FALSE

should_skip_table(name) == ~table_is_public(name)

\* the null ColKey
NoCol == ""

\* no link target
NoTable == <<"", "">>

\* the value of a column of a newly created object
DefaultValue == 0

\* what a ColKey carries: type and attributes; target is the link target
ColKey(type, nullable, indexed, collection, target) ==
    [type |-> type, nullable |-> nullable, indexed |-> indexed,
     collection |-> collection, target |-> target]

\* the attributes with the index kept
attrs_without_Indexed_mut(col_key) ==
    [nullable |-> col_key.nullable, collection |-> col_key.collection,
     indexed |-> col_key.indexed]

\* get_attrs() with col_attr_Indexed reset
attrs_without_Indexed(col_key) ==
    [nullable |-> col_key.nullable, collection |-> col_key.collection]

is_link_type(type) == type = "Link"

\* nullability of a link column as Table::add_column(Table&, ...) and its
\* list, set and dictionary variants give it
link_nullable(collection) == collection \in {"none", "dictionary"}

public_tables(group) == {n \in DOMAIN group : ~should_skip_table(n)}

get_primary_key_column(table) == table.cols[table.pk_col]

\* first loop of transfer_group: the checks on one table present in both groups
pk_check_throws(table_src, table_dst) ==
    IF (table_src.pk_col # NoCol) # (table_dst.pk_col # NoCol) THEN TRUE
    ELSE IF table_src.pk_col = NoCol THEN FALSE
    ELSE \/ get_primary_key_column(table_src).type # get_primary_key_column(table_dst).type
         \/ attrs_without_Indexed(get_primary_key_column(table_src))
                # attrs_without_Indexed(get_primary_key_column(table_dst))
         \/ table_src.pk_col # table_dst.pk_col

\* no table of dst is ever marked for removal
tables_to_remove_mut(group_src, group_dst) == {}

tables_to_remove(group_src, group_dst) ==
    {n \in public_tables(group_dst) : n \notin DOMAIN group_src}

first_loop_throws(group_src, group_dst) ==
    \E n \in public_tables(group_dst) :
        n \in DOMAIN group_src /\ pk_check_throws(group_src[n], group_dst[n])

no_columns == [c \in {} |-> 0]

no_rows == [k \in {} |-> 0]

\* Group::add_table(name, Embedded) and Group::add_table_with_primary_key(name,
\* pk_type, pk_col_name, nullable, table_type) as transfer_group calls them
add_table_like(table_src) ==
    IF table_src.table_type = "Embedded"
    THEN [table_type |-> "Embedded", pk_col |-> NoCol, cols |-> no_columns, rows |-> no_rows]
    ELSE [table_type |-> table_src.table_type,
          pk_col |-> table_src.pk_col,
          cols |-> [c \in {table_src.pk_col} |->
                       ColKey(get_primary_key_column(table_src).type,
                              get_primary_key_column(table_src).nullable,
                              TRUE, "none", NoTable)],
          rows |-> no_rows]

create_new_tables(group_src, group_dst) ==
    [n \in (DOMAIN group_dst) \cup public_tables(group_src) |->
        IF n \in DOMAIN group_dst THEN group_dst[n] ELSE add_table_like(group_src[n])]

columns_to_remove(table_src, table_dst) ==
    {c \in DOMAIN table_dst.cols : c \notin DOMAIN table_src.cols}

removed_columns_throw(group_src, group_dst, allow_schema_additions) ==
    \E n \in public_tables(group_src) :
        ~allow_schema_additions /\ columns_to_remove(group_src[n], group_dst[n]) # {}

\* a column that exists in both tables: type and attributes but the index
column_check_throws(col_key, col_key_dst) ==
    \/ col_key.type # col_key_dst.type
    \/ attrs_without_Indexed(col_key) # attrs_without_Indexed(col_key_dst)

preexisting_columns_throw(group_src, group_dst) ==
    \E n \in public_tables(group_src) :
        \E c \in (DOMAIN group_src[n].cols) \cap (DOMAIN group_dst[n].cols) :
            column_check_throws(group_src[n].cols[c], group_dst[n].cols[c])

\* the column transfer_group adds to dst for a column of src that dst lacks
add_column_like(col_key) ==
    IF is_link_type(col_key.type)
    THEN ColKey(col_key.type, link_nullable(col_key.collection), col_key.indexed,
                col_key.collection, col_key.target)
    ELSE ColKey(col_key.type, col_key.nullable, col_key.indexed,
                col_key.collection, NoTable)

object_with_columns(obj, cols) ==
    [c \in cols |-> IF c \in DOMAIN obj THEN obj[c] ELSE DefaultValue]

add_columns(table_src, table_dst) ==
    [table_dst EXCEPT
        !.cols = [c \in (DOMAIN table_dst.cols) \cup (DOMAIN table_src.cols) |->
                     IF c \in DOMAIN table_dst.cols THEN table_dst.cols[c]
                     ELSE add_column_like(table_src.cols[c])],
        !.rows = [k \in DOMAIN table_dst.rows |->
                     object_with_columns(table_dst.rows[k],
                         (DOMAIN table_dst.cols) \cup (DOMAIN table_src.cols))]]

\* the objects of dst that src lacks are kept
remove_objects_mut(table_src, table_dst) == table_dst

\* "Remove objects in dst that are absent in src"
remove_objects(table_src, table_dst) ==
    [table_dst EXCEPT
        !.rows = [k \in {pk \in DOMAIN table_dst.rows : pk \in DOMAIN table_src.rows} |->
                     table_dst.rows[k]]]

\* Table::create_object_with_primary_key(pk) on a table without that object
new_object(table, pk) ==
    [c \in DOMAIN table.cols |-> IF c = table.pk_col THEN pk ELSE DefaultValue]

\* "re-create any missing objects that are absent in dst"
create_missing_objects(table_src, table_dst) ==
    [table_dst EXCEPT
        !.rows = [k \in (DOMAIN table_dst.rows) \cup (DOMAIN table_src.rows) |->
                     IF k \in DOMAIN table_dst.rows THEN table_dst.rows[k]
                     ELSE new_object(table_dst, k)]]

\* InterRealmObjectConverter::copy(src, dst): every column of the source
\* object is copied into the column of the same name of the destination
converter_copy(obj_src, obj_dst) ==
    [c \in DOMAIN obj_dst |-> IF c \in DOMAIN obj_src THEN obj_src[c] ELSE obj_dst[c]]

\* the objects of dst that src has are reset instead of copied
copy_objects_mut(table_src, table_dst) ==
    [table_dst EXCEPT
        !.rows = [k \in DOMAIN table_dst.rows |->
                     IF k \in DOMAIN table_src.rows THEN new_object(table_dst, k)
                     ELSE table_dst.rows[k]]]

copy_objects(table_src, table_dst) ==
    [table_dst EXCEPT
        !.rows = [k \in DOMAIN table_dst.rows |->
                     IF k \in DOMAIN table_src.rows
                     THEN converter_copy(table_src.rows[k], table_dst.rows[k])
                     ELSE table_dst.rows[k]]]

transfer_objects(table_src, table_dst) ==
    copy_objects(table_src, create_missing_objects(table_src, remove_objects(table_src, table_dst)))

transfer_table(table_src, table_dst) ==
    IF table_src.table_type = "Embedded" THEN add_columns(table_src, table_dst)
    ELSE transfer_objects(table_src, add_columns(table_src, table_dst))

\* what transfer_group leaves: the exception it threw, if any, and group_dst.
\* For a throw of the column loops group_dst is given as the table creation
\* left it.
Thrown(group_dst) == [status |-> "ClientResetFailed", group |-> group_dst]

Transferred(group_dst) == [status |-> "ok", group |-> group_dst]

\* transfer_group from "Remove columns in dst if they are absent in src" on
transfer_columns_and_objects(group_src, group_dst, allow_schema_additions) ==
    IF removed_columns_throw(group_src, group_dst, allow_schema_additions) THEN Thrown(group_dst)
    ELSE IF preexisting_columns_throw(group_src, group_dst) THEN Thrown(group_dst)
    ELSE Transferred([n \in DOMAIN group_dst |->
                         IF n \in public_tables(group_src)
                         THEN transfer_table(group_src[n], group_dst[n])
                         ELSE group_dst[n]])

transfer_group(group_src, group_dst, allow_schema_additions) ==
    IF first_loop_throws(group_src, group_dst) THEN Thrown(group_dst)
    ELSE IF ~allow_schema_additions /\ tables_to_remove(group_src, group_dst) # {}
    THEN Thrown(group_dst)
    ELSE transfer_columns_and_objects(group_src, create_new_tables(group_src, group_dst),
                                      allow_schema_additions)

(***************************************************************************)
(* The pending-reset marker: table client_reset_metadata                   *)
(***************************************************************************)
s_meta_reset_table_name == <<"", "client_reset_metadata">>

s_pk_col_name == "id"

s_version_column_name == "version"

s_timestamp_col_name == "event_time"

s_reset_type_col_name == "type_of_reset"

metadata_version == 1

\* Timestamp(std::chrono::system_clock::now()); the clock is not modelled
now == 0

\* the table track_reset creates when there is none
new_metadata_table ==
    [table_type |-> "TopLevel",
     pk_col |-> s_pk_col_name,
     cols |-> [c \in {s_pk_col_name, s_version_column_name, s_timestamp_col_name,
                      s_reset_type_col_name} |->
                  IF c = s_pk_col_name THEN ColKey("ObjectId", FALSE, TRUE, "none", NoTable)
                  ELSE IF c = s_timestamp_col_name
                       THEN ColKey("Timestamp", FALSE, FALSE, "none", NoTable)
                       ELSE ColKey("Int", FALSE, FALSE, "none", NoTable)],
     rows |-> no_rows]

metadata_size(tables) ==
    IF s_meta_reset_table_name \in DOMAIN tables
    THEN Cardinality(DOMAIN tables[s_meta_reset_table_name].rows)
    ELSE 0

remove_pending_client_resets_mut(tables) == tables

remove_pending_client_resets(tables) ==
    IF metadata_size(tables) > 0
    THEN [tables EXCEPT ![s_meta_reset_table_name].rows = no_rows]
    ELSE tables

\* *table->begin()
first_object(table) == table.rows[CHOOSE k \in DOMAIN table.rows : \A j \in DOMAIN table.rows : k <= j]

NoPending == [status |-> "none", type |-> "Manual"]

PendingThrows == [status |-> "ClientResetFailed", type |-> "Manual"]

pending_of(first) ==
    IF first[s_version_column_name] > metadata_version THEN PendingThrows
    ELSE IF first[s_reset_type_col_name] = 0 THEN [status |-> "pending", type |-> "DiscardLocal"]
    ELSE IF first[s_reset_type_col_name] = 1 THEN [status |-> "pending", type |-> "Recover"]
    ELSE PendingThrows

has_pending_reset(tables) ==
    IF metadata_size(tables) = 0 THEN NoPending
    ELSE IF metadata_size(tables) > 1 THEN PendingThrows
    ELSE pending_of(first_object(tables[s_meta_reset_table_name]))

\* every mode is recorded as Discard
mode_val_mut(m) == 0

mode_val(m) == IF m \in {"Recover", "RecoverOrDiscard"} THEN 1 ELSE 0

\* ObjectId::gen(): an id no object of the table has
ObjectId_gen(table) ==
    CHOOSE k \in 1..(Cardinality(DOMAIN table.rows) + 1) : k \notin DOMAIN table.rows

with_metadata_table(tables) ==
    IF s_meta_reset_table_name \in DOMAIN tables THEN tables
    ELSE [n \in (DOMAIN tables) \cup {s_meta_reset_table_name} |->
             IF n \in DOMAIN tables THEN tables[n] ELSE new_metadata_table]

marker_object(id, m) ==
    [c \in {s_pk_col_name, s_version_column_name, s_timestamp_col_name, s_reset_type_col_name} |->
        IF c = s_pk_col_name THEN id
        ELSE IF c = s_version_column_name THEN metadata_version
        ELSE IF c = s_timestamp_col_name THEN now
        ELSE mode_val(m)]

create_marker(table, id, m) ==
    [table EXCEPT !.rows = [k \in (DOMAIN table.rows) \cup {id} |->
                               IF k = id THEN marker_object(id, m) ELSE table.rows[k]]]

\* track_reset on a group that has the metadata table
track_reset_in(tables, m) ==
    IF metadata_size(tables) > 1
    THEN [status |-> "ClientResetFailed", mode |-> m, tables |-> tables]
    ELSE [status |-> "ok", mode |-> m,
          tables |-> [tables EXCEPT ![s_meta_reset_table_name] =
                         create_marker(@, ObjectId_gen(@), m)]]

track_reset(tables, m) == track_reset_in(with_metadata_table(tables), m)

\* the switch of reset_precheck_guard on the type of the previous reset
precheck_on_previous_mut(previous_type, m) ==
    IF m = "Recover" THEN "throw"
    ELSE IF m = "RecoverOrDiscard" THEN "downgrade"
    ELSE "remove"

precheck_on_previous(previous_type, m) ==
    IF previous_type = "DiscardLocal" THEN "throw"
    ELSE IF previous_type = "Recover"
         THEN IF m = "Recover" THEN "throw"
              ELSE IF m = "RecoverOrDiscard" THEN "downgrade"
              ELSE "remove"
         ELSE "throw"

previous_throws(pending, m) ==
    \/ pending.status = "ClientResetFailed"
    \/ pending.status = "pending" /\ precheck_on_previous(pending.type, m) = "throw"

\* RecoverOrDiscard is not downgraded
mode_after_previous_mut(pending, m) == m

mode_after_previous(pending, m) ==
    IF pending.status = "pending" /\ precheck_on_previous(pending.type, m) = "downgrade"
    THEN "DiscardLocal"
    ELSE m

tables_after_previous(pending, tables) ==
    IF pending.status = "pending" THEN remove_pending_client_resets(tables) ELSE tables

precheck_recovery_allowed_mut(tables, m, allowed) == track_reset(tables, m)

\* reset_precheck_guard from "if (!recovery_is_allowed)" on
precheck_recovery_allowed(tables, m, allowed) ==
    IF ~allowed /\ m = "Recover"
    THEN [status |-> "ClientResetFailed", mode |-> m, tables |-> tables]
    ELSE IF ~allowed /\ m = "RecoverOrDiscard" THEN track_reset(tables, "DiscardLocal")
    ELSE track_reset(tables, m)

reset_precheck_guard(tables, m, allowed) ==
    IF previous_throws(has_pending_reset(tables), m)
    THEN [status |-> "ClientResetFailed", mode |-> m, tables |-> tables]
    ELSE precheck_recovery_allowed(tables_after_previous(has_pending_reset(tables), tables),
                                   mode_after_previous(has_pending_reset(tables), m), allowed)

(***************************************************************************)
(* perform_client_reset_diff                                               *)
(***************************************************************************)
recover_local_changes(m) == m \in {"Recover", "RecoverOrDiscard"}

\* the file ident the server gave to the fresh Realm
client_file_ident == "fresh"

\* One instruction of a local changeset: set column col of the object pk of
\* table to value.  RecoverLocalChangesetsHandler applies it where the
\* object and the column exist.
apply_instruction(tables, ins) ==
    IF /\ ins.table \in DOMAIN tables
       /\ ins.pk \in DOMAIN tables[ins.table].rows
       /\ ins.col \in DOMAIN tables[ins.table].cols
    THEN [tables EXCEPT ![ins.table].rows[ins.pk][ins.col] = ins.value]
    ELSE tables

RECURSIVE process_changesets(_, _)
process_changesets(changes, tables) ==
    IF changes = <<>> THEN tables
    ELSE process_changesets(Tail(changes), apply_instruction(tables, Head(changes)))

\* the reset ends with an exception: the write transaction is rolled back
reset_fails(status, by) ==
    /\ pc' = "failed"
    /\ outcome' = status
    /\ thrown_by' = by

\* lines 590-610 once reset_precheck_guard has returned or thrown
after_precheck(pre, flx) ==
    /\ mode' = pre.mode
    /\ wt_local' = [db_local EXCEPT !.tables = pre.tables]
    /\ IF pre.status # "ok" THEN reset_fails(pre.status, "reset_precheck_guard")
       ELSE /\ outcome' = "none"
            /\ thrown_by' = "none"
            /\ pc' = IF recover_local_changes(pre.mode) /\ ~flx THEN "recover_remote"
                     ELSE "transfer"

\* perform_client_reset_diff is called: snapshot, write transactions, precheck
StartReset(m, allowed, flx) ==
    /\ pc \in {"idle", "done", "failed"}
    /\ requested_mode' = m
    /\ recovery_is_allowed' = allowed
    /\ sub_store' = flx
    /\ frozen_pre_local_state' = db_local
    /\ wt_remote' = db_remote
    /\ after_precheck(reset_precheck_guard(db_local.tables, m, allowed), flx)
    /\ UNCHANGED <<db_local, db_remote, local_changes>>
    /\ UNCHANGED <<radix_vars, results_vars, group_vars, aux_vars>>

\* PBS recovery: the local changes are applied to the remote Realm first
RecoverOnRemote(conflict) ==
    /\ pc = "recover_remote"
    /\ IF conflict
       THEN reset_fails("ClientResetFailed", "process_changesets") /\ UNCHANGED wt_remote
       ELSE /\ wt_remote' = process_changesets(local_changes, wt_remote)
            /\ pc' = "transfer"
            /\ UNCHANGED <<outcome, thrown_by>>
    /\ UNCHANGED <<db_local, db_remote, wt_local, frozen_pre_local_state, local_changes,
                   requested_mode, mode, recovery_is_allowed, sub_store>>
    /\ UNCHANGED <<radix_vars, results_vars, group_vars, aux_vars>>

after_transfer(transferred) ==
    /\ wt_local' = [wt_local EXCEPT !.tables = transferred.group]
    /\ IF transferred.status # "ok" THEN reset_fails(transferred.status, "transfer_group")
       ELSE pc' = "commit" /\ UNCHANGED <<outcome, thrown_by>>

\* transfer_group(*wt_remote, *wt_local, logger, recover_local_changes)
TransferGroup ==
    /\ pc = "transfer"
    /\ after_transfer(transfer_group(wt_remote, wt_local.tables, recover_local_changes(mode)))
    /\ UNCHANGED <<db_local, db_remote, wt_remote, frozen_pre_local_state, local_changes,
                   requested_mode, mode, recovery_is_allowed, sub_store>>
    /\ UNCHANGED <<radix_vars, results_vars, group_vars, aux_vars>>

\* set_client_reset_adjustments, rollback of wt_remote, commit of wt_local and
\* remake_active_subscription; FLX recovery keeps the original file ident here
CommitReset ==
    /\ pc = "commit"
    /\ db_local' = [wt_local EXCEPT !.file_ident =
                       IF recover_local_changes(mode) /\ sub_store THEN @
                       ELSE client_file_ident]
    /\ wt_local' = db_local'
    /\ wt_remote' = db_remote
    /\ IF recover_local_changes(mode) /\ sub_store
       THEN pc' = "recover_local" /\ UNCHANGED outcome
       ELSE pc' = "done" /\ outcome' = "ok"
    /\ UNCHANGED thrown_by
    /\ UNCHANGED <<db_remote, frozen_pre_local_state, local_changes,
                   requested_mode, mode, recovery_is_allowed, sub_store>>
    /\ UNCHANGED <<radix_vars, results_vars, group_vars, aux_vars>>

\* FLX recovery: the local changes are applied to the local Realm in a second
\* write transaction, which also sets the new file ident
RecoverOnLocal(conflict) ==
    /\ pc = "recover_local"
    /\ IF conflict
       THEN /\ reset_fails("ClientResetFailed", "process_changesets")
            /\ UNCHANGED <<db_local, wt_local>>
       ELSE /\ wt_local' = [tables |-> process_changesets(local_changes, db_local.tables),
                            file_ident |-> client_file_ident]
            /\ db_local' = wt_local'
            /\ pc' = "done"
            /\ outcome' = "ok"
            /\ UNCHANGED thrown_by
    /\ UNCHANGED <<db_remote, wt_remote, frozen_pre_local_state, local_changes,
                   requested_mode, mode, recovery_is_allowed, sub_store>>
    /\ UNCHANGED <<radix_vars, results_vars, group_vars, aux_vars>>

\* process_changesets "throws on error": it can only fail on a changeset
Conflicts == IF local_changes = <<>> THEN {FALSE} ELSE BOOLEAN

Modes == {"DiscardLocal", "Recover", "RecoverOrDiscard"}

(***************************************************************************)
(* The Realm files the reset is run on                                     *)
(***************************************************************************)
MaxPk == 2

PkValues == 1..MaxPk

class_A == <<g_class_name_prefix, "A">>

class_B == <<g_class_name_prefix, "B">>

IntCol == ColKey("Int", FALSE, FALSE, "none", NoTable)

PkCol == ColKey("Int", FALSE, TRUE, "none", NoTable)

\* objects keys of a table: column pk_col holds the key, the other columns of
\* object 1 hold v and those of the other objects the default
objects_of(pk_col, cols, keys, v) ==
    [k \in keys |-> [c \in DOMAIN cols |->
        IF c = pk_col THEN k ELSE IF k = 1 THEN v ELSE DefaultValue]]

TopLevel(pk_col, cols, keys, v) ==
    [table_type |-> "TopLevel", pk_col |-> pk_col, cols |-> cols,
     rows |-> objects_of(pk_col, cols, keys, v)]

Embedded(cols) ==
    [table_type |-> "Embedded", pk_col |-> NoCol, cols |-> cols, rows |-> no_rows]

cols2(n1, c1, n2, c2) == [c \in {n1, n2} |-> IF c = n1 THEN c1 ELSE c2]

cols3(n1, c1, n2, c2, n3, c3) ==
    [c \in {n1, n2, n3} |-> IF c = n1 THEN c1 ELSE IF c = n2 THEN c2 ELSE c3]

BaseCols == cols2("id", PkCol, "x", IntCol)

\* class_A with the schema both sides agree on, over all sets of objects
BaseTables == {TopLevel("id", BaseCols, keys, v) : keys \in SUBSET PkValues, v \in {0, 1}}

\* class_A as the server may have it when its schema is not the local one
OtherColumns ==
    { cols2("id", ColKey("String", FALSE, TRUE, "none", NoTable), "x", IntCol),
      cols2("id", ColKey("Int", TRUE, TRUE, "none", NoTable), "x", IntCol),
      cols2("id", ColKey("Int", FALSE, FALSE, "none", NoTable), "x", IntCol),
      cols2("id", PkCol, "x", ColKey("String", FALSE, FALSE, "none", NoTable)),
      cols2("id", PkCol, "x", ColKey("Int", TRUE, FALSE, "none", NoTable)),
      cols2("id", PkCol, "x", ColKey("Int", FALSE, TRUE, "none", NoTable)),
      cols2("id", PkCol, "x", ColKey("Int", FALSE, FALSE, "list", NoTable)),
      [c \in {"id"} |-> PkCol],
      cols3("id", PkCol, "x", IntCol, "y", ColKey("Link", FALSE, FALSE, "list", class_A)),
      cols3("id", PkCol, "x", IntCol, "z", ColKey("String", TRUE, TRUE, "none", NoTable)) }

OtherTables ==
    {TopLevel("id", cols, {1}, 1) : cols \in OtherColumns}
        \cup {TopLevel("key", cols2("key", PkCol, "x", IntCol), {1}, 1),
              Embedded([c \in {"x"} |-> IntCol])}

\* class_B: a nullable string primary key and a nullable column
TableB ==
    TopLevel("name", cols2("name", ColKey("String", TRUE, TRUE, "none", NoTable),
                           "n", ColKey("Int", TRUE, FALSE, "none", NoTable)), {1}, 1)

group_of(tables_A, tables_B) ==
    [n \in {class_A : t \in tables_A} \cup {class_B : t \in tables_B} |->
        IF n = class_A THEN CHOOSE t \in tables_A : TRUE ELSE CHOOSE t \in tables_B : TRUE]

\* a group with at most one of the given tables under each of the two names
GroupsOf(tables_A, tables_B) ==
    {group_of(a, b) : a \in {{}} \cup {{t} : t \in tables_A},
                      b \in {{}} \cup {{t} : t \in tables_B}}

LocalGroups == GroupsOf(BaseTables, {TableB})

RemoteGroups == GroupsOf(BaseTables \cup OtherTables, {TableB})

LocalChangeSets ==
    { <<>>, <<[table |-> class_A, pk |-> 1, col |-> "x", value |-> 1]>> }

radix_not_running ==
    /\ root = <<>>
    /\ column = <<>>
    /\ aborted = FALSE

ResetInit ==
    /\ db_remote \in RemoteGroups
    /\ db_local \in {[tables |-> g, file_ident |-> "orig"] : g \in LocalGroups}
    /\ local_changes \in LocalChangeSets
    /\ wt_local = db_local
    /\ wt_remote = db_remote
    /\ frozen_pre_local_state = db_local
    /\ requested_mode = "Manual"
    /\ mode = "Manual"
    /\ recovery_is_allowed = FALSE
    /\ sub_store = FALSE
    /\ pc = "idle"
    /\ outcome = "none"
    /\ thrown_by = "none"
    /\ radix_not_running
    /\ results_not_running
    /\ group_not_running
    /\ aux_not_running

ResetNext ==
    \/ \E m \in Modes, allowed \in BOOLEAN, flx \in BOOLEAN : StartReset(m, allowed, flx)
    \/ \E conflict \in Conflicts : RecoverOnRemote(conflict)
    \/ TransferGroup
    \/ CommitReset
    \/ \E conflict \in Conflicts : RecoverOnLocal(conflict)

ResetSpec == ResetInit /\ [][ResetNext]_vars

(***************************************************************************)
(* Reset attempts with the marker removed between them, as the caller of   *)
(* the reset does once a reset has gone through.                           *)
(***************************************************************************)

\* remove_pending_client_resets(wt) in a write transaction of its own,
\* committed, while no reset is under way
RemovePendingClientResets ==
    /\ pc \in {"idle", "done", "failed"}
    /\ metadata_size(db_local.tables) > 0
    /\ db_local' = [db_local EXCEPT !.tables = remove_pending_client_resets(@)]
    /\ wt_local' = db_local'
    /\ UNCHANGED <<db_remote, wt_remote, frozen_pre_local_state, local_changes,
                   requested_mode, mode, recovery_is_allowed, sub_store, pc, outcome, thrown_by>>
    /\ UNCHANGED <<radix_vars, results_vars, group_vars, aux_vars>>

PendingNext ==
    \/ \E m \in Modes, allowed \in BOOLEAN, flx \in BOOLEAN : StartReset(m, allowed, flx)
    \/ \E conflict \in Conflicts : RecoverOnRemote(conflict)
    \/ TransferGroup
    \/ CommitReset
    \/ \E conflict \in Conflicts : RecoverOnLocal(conflict)
    \/ RemovePendingClientResets

PendingSpec == ResetInit /\ [][PendingNext]_vars

(***************************************************************************)
(* perform_client_reset_diff with a SubscriptionStore, step by step: the   *)
(* subscription sets, in the order of their versions, and the commits the  *)
(* reset makes on the local file.                                          *)
(***************************************************************************)

\* the file idents a server hands out
FileIdents == {"orig", "fresh", "fresher"}

\* the subscription sets of the store when the reset starts
SubscriptionStores ==
    { <<"Complete">>, <<"Complete", "Pending">>, <<"Superseded", "Complete", "Pending">> }

\* sub_store->get_active(): the latest set that is complete
get_active(subs) ==
    CHOOSE v \in 1..Len(subs) :
        subs[v] = "Complete" /\ \A w \in (v + 1)..Len(subs) : subs[w] # "Complete"

\* sub_store->get_pending_subscriptions(): the sets after the active one
get_pending_subscriptions(subs) ==
    SelectSeq([v \in 1..Len(subs) |-> v], LAMBDA v : v > get_active(subs) /\ subs[v] = "Pending")

\* the lambda remake_active_subscription: a copy of the active set is
\* committed in the complete state, which supersedes every other set
remake_active_subscription(subs) ==
    Append([v \in 1..Len(subs) |-> "Superseded"], "Complete")

\* the pending subscriptions the handler replays come after the active set
replay_subscriptions(subs, pending) ==
    subs \o [i \in 1..Len(pending) |-> "Pending"]

\* a commit of the local file as the reset makes it
commit_record(file_ident, tables, subs) ==
    [file_ident |-> file_ident, tables |-> tables, subs |-> subs]

FlxInit ==
    /\ db_remote \in RemoteGroups
    /\ db_local \in {[tables |-> g, file_ident |-> "orig"] : g \in LocalGroups}
    /\ local_changes \in LocalChangeSets
    /\ wt_local = db_local
    /\ wt_remote = db_remote
    /\ frozen_pre_local_state = db_local
    /\ requested_mode = "Manual"
    /\ mode = "Manual"
    /\ recovery_is_allowed = FALSE
    /\ sub_store = TRUE
    /\ pc = "idle"
    /\ outcome = "none"
    /\ thrown_by = "none"
    /\ \E subs \in SubscriptionStores :
          flx_reset = [subs |-> subs, subs_before |-> subs, client_file_ident |-> "orig",
                       pending_subscriptions |-> <<>>, commits |-> <<>>]
    /\ radix_not_running
    /\ results_not_running
    /\ group_not_running
    /\ key_not_running
    /\ node_not_running
    /\ db_not_running

flx_frame == UNCHANGED <<radix_vars, results_vars, group_vars, index_key, index_node, this_db>>

\* perform_client_reset_diff is called with a SubscriptionStore and the
\* file ident of the fresh Realm: snapshot, write transactions, precheck
FlxStartReset(m, allowed, ident) ==
    /\ pc \in {"idle", "done", "failed"}
    /\ ident # db_local.file_ident
    /\ requested_mode' = m
    /\ recovery_is_allowed' = allowed
    /\ sub_store' = TRUE
    /\ frozen_pre_local_state' = db_local
    /\ wt_remote' = db_remote
    /\ after_precheck(reset_precheck_guard(db_local.tables, m, allowed), TRUE)
    /\ flx_reset' = [flx_reset EXCEPT !.client_file_ident = ident,
                                      !.subs_before = flx_reset.subs,
                                      !.pending_subscriptions = <<>>,
                                      !.commits = <<>>]
    /\ UNCHANGED <<db_local, db_remote, local_changes>>
    /\ flx_frame

\* transfer_group; with recovery the pending subscriptions are saved first
FlxTransferGroup ==
    /\ pc = "transfer"
    /\ after_transfer(transfer_group(wt_remote, wt_local.tables, recover_local_changes(mode)))
    /\ flx_reset' = [flx_reset EXCEPT !.pending_subscriptions =
                        IF recover_local_changes(mode)
                        THEN get_pending_subscriptions(flx_reset.subs) ELSE @]
    /\ UNCHANGED <<db_local, db_remote, wt_remote, frozen_pre_local_state, local_changes,
                   requested_mode, mode, recovery_is_allowed, sub_store>>
    /\ flx_frame

first_commit_ident_mut == flx_reset.client_file_ident

\* the file ident set_client_reset_adjustments is given: with recovery
\* orig_file_ident, without it client_file_ident
first_commit_ident ==
    IF recover_local_changes(mode) THEN wt_local.file_ident
    ELSE flx_reset.client_file_ident

\* set_client_reset_adjustments, rollback of wt_remote, commit of wt_local
FlxCommit ==
    /\ pc = "commit"
    /\ db_local' = [wt_local EXCEPT !.file_ident = first_commit_ident]
    /\ wt_local' = db_local'
    /\ wt_remote' = db_remote
    /\ pc' = "remake"
    /\ flx_reset' = [flx_reset EXCEPT !.commits =
                        Append(@, commit_record(first_commit_ident, wt_local.tables, flx_reset.subs))]
    /\ UNCHANGED <<db_remote, frozen_pre_local_state, local_changes, requested_mode, mode,
                   recovery_is_allowed, sub_store, outcome, thrown_by>>
    /\ flx_frame

\* remake_active_subscription(), after the commit
FlxRemakeActiveSubscription ==
    /\ pc = "remake"
    /\ flx_reset' = [flx_reset EXCEPT !.subs = remake_active_subscription(@)]
    /\ IF recover_local_changes(mode)
       THEN pc' = "recover_local" /\ UNCHANGED outcome
       ELSE pc' = "done" /\ outcome' = "ok"
    /\ UNCHANGED <<db_local, db_remote, wt_local, wt_remote, frozen_pre_local_state,
                   local_changes, requested_mode, mode, recovery_is_allowed, sub_store,
                   thrown_by>>
    /\ flx_frame

\* the second write transaction: the handler replays the local changesets
\* and the pending subscriptions, then set_client_file_ident_in_wt and commit
FlxRecoverOnLocal(conflict) ==
    /\ pc = "recover_local"
    /\ IF conflict
       THEN /\ reset_fails("ClientResetFailed", "process_changesets")
            /\ UNCHANGED <<db_local, wt_local, flx_reset>>
       ELSE /\ wt_local' = [tables |-> process_changesets(local_changes, db_local.tables),
                            file_ident |-> flx_reset.client_file_ident]
            /\ db_local' = wt_local'
            /\ flx_reset' =
                  [flx_reset EXCEPT
                      !.subs = replay_subscriptions(@, flx_reset.pending_subscriptions),
                      !.commits = Append(@, commit_record(
                          flx_reset.client_file_ident,
                          process_changesets(local_changes, db_local.tables),
                          replay_subscriptions(flx_reset.subs, flx_reset.pending_subscriptions)))]
            /\ pc' = "done"
            /\ outcome' = "ok"
            /\ UNCHANGED thrown_by
    /\ UNCHANGED <<db_remote, wt_remote, frozen_pre_local_state, local_changes,
                   requested_mode, mode, recovery_is_allowed, sub_store>>
    /\ flx_frame

FlxNext ==
    \/ \E m \in Modes, allowed \in BOOLEAN, ident \in FileIdents : FlxStartReset(m, allowed, ident)
    \/ FlxTransferGroup
    \/ FlxCommit
    \/ FlxRemakeActiveSubscription
    \/ \E conflict \in Conflicts : FlxRecoverOnLocal(conflict)

FlxSpec == FlxInit /\ [][FlxNext]_vars

(***************************************************************************)
(* Claims about the client reset                                           *)
(***************************************************************************)
\* the marker a file holds, as the next reset attempt reads it
recorded(db) == has_pending_reset(db.tables)

Pending(type) == [status |-> "pending", type |-> type]

public_part(tables) == [n \in public_tables(tables) |-> tables[n]]

\* the reset repeats what the recorded marker says was tried before
cycle_attempt ==
    \/ requested_mode = "DiscardLocal" /\ recorded(frozen_pre_local_state) = Pending("DiscardLocal")
    \/ requested_mode = "Recover" /\ recorded(frozen_pre_local_state) = Pending("Recover")

\* C4: a DiscardLocal reset attempted while a DiscardLocal marker is recorded,
\* and a Recover reset attempted while a Recover marker is recorded, fails with
\* ClientResetFailed; the recorded marker and all local tables are unchanged
C4_CycleRefused ==
    (pc # "idle" /\ cycle_attempt) =>
        /\ pc = "failed"
        /\ outcome = "ClientResetFailed"
        /\ thrown_by = "reset_precheck_guard"
        /\ db_local = frozen_pre_local_state
        /\ wt_local = frozen_pre_local_state

C4_Witness ==
    /\ pc = "failed"
    /\ cycle_attempt
    /\ requested_mode = "Recover"
    /\ public_tables(db_local.tables) # {}

\* C5: after a successful reset that ran as DiscardLocal every public
\* non-embedded table of the remote group exists locally with the same set of
\* primary keys and, for every key, the same value in every column
C5_DiscardLocalMirrorsRemote ==
    (pc = "done" /\ mode = "DiscardLocal") =>
        \A n \in public_tables(db_remote) :
            db_remote[n].table_type # "Embedded" =>
                /\ n \in DOMAIN db_local.tables
                /\ DOMAIN db_local.tables[n].rows = DOMAIN db_remote[n].rows
                /\ \A k \in DOMAIN db_remote[n].rows :
                       /\ DOMAIN db_local.tables[n].rows[k] = DOMAIN db_remote[n].rows[k]
                       /\ \A c \in DOMAIN db_remote[n].rows[k] :
                              db_local.tables[n].rows[k][c] = db_remote[n].rows[k][c]

\* a DiscardLocal reset is done that deleted a row of class_A, changed a
\* value of another and created the rows of class_B
C5_Witness ==
    /\ pc = "done"
    /\ mode = "DiscardLocal"
    /\ class_A \in DOMAIN frozen_pre_local_state.tables
    /\ class_A \in DOMAIN db_remote
    /\ class_B \notin DOMAIN frozen_pre_local_state.tables
    /\ class_B \in DOMAIN db_remote
    /\ \E k \in DOMAIN frozen_pre_local_state.tables[class_A].rows :
           k \notin DOMAIN db_remote[class_A].rows
    /\ \E k \in DOMAIN db_remote[class_A].rows :
           /\ k \in DOMAIN frozen_pre_local_state.tables[class_A].rows
           /\ frozen_pre_local_state.tables[class_A].rows[k] # db_remote[class_A].rows[k]

\* C6: a reset requested in RecoverOrDiscard mode never fails in the precheck
\* or in the replay of the local changes: with a marker recorded, or on a
\* conflict, it runs as DiscardLocal and completes
C6_RecoverOrDiscardCompletes ==
    (pc # "idle" /\ requested_mode = "RecoverOrDiscard") =>
        /\ pc = "failed" => thrown_by = "transfer_group"
        /\ recorded(frozen_pre_local_state).status = "pending" => mode = "DiscardLocal"

\* C6 as the code has it: with a Recover marker recorded the reset runs as
\* DiscardLocal and can only fail in the state transfer; with a DiscardLocal
\* marker recorded it fails in the precheck and leaves the file as it was;
\* a conflict in the replay ends the reset with ClientResetFailed, not with a
\* DiscardLocal run
C6_RecoverOrDiscardDowngrades ==
    (pc # "idle" /\ requested_mode = "RecoverOrDiscard") =>
        /\ recorded(frozen_pre_local_state) = Pending("Recover") =>
               /\ mode = "DiscardLocal"
               /\ pc = "failed" => thrown_by = "transfer_group"
               /\ pc = "done" => recorded(db_local) = Pending("DiscardLocal")
        /\ recorded(frozen_pre_local_state) = Pending("DiscardLocal") =>
               /\ pc = "failed"
               /\ outcome = "ClientResetFailed"
               /\ thrown_by = "reset_precheck_guard"
               /\ db_local = frozen_pre_local_state
        /\ thrown_by = "process_changesets" =>
               /\ pc = "failed"
               /\ outcome = "ClientResetFailed"
               /\ mode = "RecoverOrDiscard"

C6_Witness ==
    /\ pc = "done"
    /\ requested_mode = "RecoverOrDiscard"
    /\ recovery_is_allowed
    /\ recorded(frozen_pre_local_state) = Pending("Recover")
    /\ mode = "DiscardLocal"

\* transfer_group has returned or thrown and wt_local is as it left it
transfer_has_run == pc = "commit" \/ (pc = "failed" /\ thrown_by = "transfer_group")

\* the public tables the local file has and the source of the transfer lacks
local_only_tables ==
    {n \in public_tables(frozen_pre_local_state.tables) : n \notin DOMAIN wt_remote}

without_tables(tables, names) == [n \in (DOMAIN tables) \ names |-> tables[n]]

C7_WitnessKept ==
    /\ pc = "commit"
    /\ recover_local_changes(mode)
    /\ local_only_tables = {class_B}
    /\ wt_local.tables[class_B].rows # no_rows

\* type, nullability or collection kind of two ColKeys differ
core_attributes_differ(a, b) ==
    a.type # b.type \/ a.nullable # b.nullable \/ a.collection # b.collection

primary_keys_differ(table_src, table_dst) ==
    \/ (table_src.pk_col = NoCol) # (table_dst.pk_col = NoCol)
    \/ /\ table_src.pk_col # NoCol
       /\ table_dst.pk_col # NoCol
       /\ \/ table_src.pk_col # table_dst.pk_col
          \/ core_attributes_differ(table_src.cols[table_src.pk_col],
                                    table_dst.cols[table_dst.pk_col])

same_named_columns_differ(table_src, table_dst) ==
    \E c \in (DOMAIN table_src.cols) \cap (DOMAIN table_dst.cols) :
        core_attributes_differ(table_src.cols[c], table_dst.cols[c])

\* the public tables both the local file and the source of the transfer have
tables_in_both ==
    {n \in public_tables(frozen_pre_local_state.tables) : n \in DOMAIN wt_remote}

schema_incompatible ==
    \E n \in tables_in_both :
        \/ primary_keys_differ(wt_remote[n], frozen_pre_local_state.tables[n])
        \/ same_named_columns_differ(wt_remote[n], frozen_pre_local_state.tables[n])

local_only_columns ==
    \E n \in tables_in_both :
        \E c \in DOMAIN frozen_pre_local_state.tables[n].cols : c \notin DOMAIN wt_remote[n].cols

\* column c of table n was not in the local file before the reset
column_was_missing(n, c) ==
    \/ n \notin DOMAIN frozen_pre_local_state.tables
    \/ c \notin DOMAIN frozen_pre_local_state.tables[n].cols

\* C8: transfer_group throws ClientResetFailed when a public table of both
\* groups differs in having a primary key, in its type, name or attributes
\* other than Indexed, or when a same-named column differs in type or in
\* attributes other than Indexed; a difference in Indexed never makes it fail
\* (it fails only for such a difference or for a table or column that only
\* local has); a public remote table or column that local lacks is created
\* with the remote's type, nullability, collection kind and link target
C8_SchemaChecks ==
    transfer_has_run =>
        /\ schema_incompatible => (pc = "failed" /\ outcome = "ClientResetFailed")
        /\ pc = "failed" =>
               \/ schema_incompatible
               \/ ~recover_local_changes(mode) /\ (local_only_tables # {} \/ local_only_columns)
        /\ pc = "commit" =>
               \A n \in public_tables(wt_remote) :
                   /\ n \in DOMAIN wt_local.tables
                   /\ n \notin DOMAIN frozen_pre_local_state.tables =>
                          /\ wt_local.tables[n].table_type = wt_remote[n].table_type
                          /\ wt_local.tables[n].pk_col = wt_remote[n].pk_col
                   /\ \A c \in DOMAIN wt_remote[n].cols :
                          /\ c \in DOMAIN wt_local.tables[n].cols
                          /\ column_was_missing(n, c) =>
                                 /\ ~core_attributes_differ(wt_local.tables[n].cols[c],
                                                            wt_remote[n].cols[c])
                                 /\ wt_local.tables[n].cols[c].target = wt_remote[n].cols[c].target

\* a transfer went through that created class_B and the link list column y
C8_Witness ==
    /\ pc = "commit"
    /\ class_B \notin DOMAIN frozen_pre_local_state.tables
    /\ class_B \in DOMAIN wt_local.tables
    /\ class_A \in DOMAIN frozen_pre_local_state.tables
    /\ "y" \notin DOMAIN frozen_pre_local_state.tables[class_A].cols
    /\ "y" \in DOMAIN wt_local.tables[class_A].cols

\* C8, other cases: an index is the only difference and the transfer went
\* through; a primary key type differs and the transfer threw
C8_WitnessIndexOnly ==
    /\ pc = "commit"
    /\ class_A \in tables_in_both
    /\ wt_remote[class_A].cols # frozen_pre_local_state.tables[class_A].cols
    /\ DOMAIN wt_remote[class_A].cols = DOMAIN frozen_pre_local_state.tables[class_A].cols
    /\ ~schema_incompatible

C8_WitnessThrown ==
    /\ pc = "failed"
    /\ thrown_by = "transfer_group"
    /\ recover_local_changes(mode)
    /\ schema_incompatible

\* the marker the precheck of this reset wrote
marker_of_this_reset ==
    Pending(IF recover_local_changes(mode) THEN "Recover" ELSE "DiscardLocal")

\* C9: when a step of the reset after the precheck fails (schema or row
\* transfer, changeset replay), the marker the precheck recorded is in the
\* committed local file, where the next attempt reads it
C9_MarkerSurvivesFailure ==
    (pc = "failed" /\ thrown_by # "reset_precheck_guard") =>
        recorded(db_local) = marker_of_this_reset

\* what the code keeps of C9: the marker survives a failed replay of a
\* flexible-sync recovery, which comes after the first commit
C9_MarkerSurvivesFlxReplay ==
    (pc = "failed" /\ thrown_by = "process_changesets" /\ sub_store) =>
        recorded(db_local) = marker_of_this_reset

same_public_tables ==
    public_part(frozen_pre_local_state.tables) = public_part(db_remote)

C11_MarkerReadsBackMode ==
    pc \in {"recover_remote", "transfer"} => has_pending_reset(wt_local.tables) = Pending(mode)

\* C11 as the code has it: track_reset records Recover and RecoverOrDiscard
\* with the same value, which has_pending_reset reads as Recover; DiscardLocal
\* reads back as DiscardLocal
C11_MarkerReadsBackRecorded ==
    pc \in {"recover_remote", "transfer"} =>
        has_pending_reset(wt_local.tables) =
            Pending(IF mode = "DiscardLocal" THEN "DiscardLocal" ELSE "Recover")

C11_Witness ==
    /\ pc = "recover_remote"
    /\ mode = "RecoverOrDiscard"
    /\ has_pending_reset(wt_local.tables) = Pending("Recover")
(***************************************************************************)
(* Results (object-store/results.cpp) and TableView (table_view.cpp).      *)
(* The Realm holds one table of objects with an integer column x and one   *)
(* list of integers; a Results is built on the table, on a Query or a      *)
(* TableView over it, or on the list.  A Query is the set of values of x   *)
(* its condition accepts; a descriptor sorts on x, makes x distinct, or    *)
(* limits the number of rows.                                              *)
(***************************************************************************)
MaxRows == 6          \* the ObjKeys the table ever allocates are 0..MaxRows-1
MaxList == 3          \* the list never grows beyond this size
MaxOrdering == 2      \* descriptors appended to the Results calls are made on

XValues == {1, 2, 3}

Min(a, b) == IF a < b THEN a ELSE b

\* the keys of the set S in increasing order
RECURSIVE in_key_order(_)
in_key_order(S) ==
    IF S = {} THEN <<>>
    ELSE LET k == CHOOSE k \in S : \A j \in S : k <= j
         IN <<k>> \o in_key_order(S \ {k})

\* Table::is_valid(key)
is_valid_key(rm, key) == key \in DOMAIN rm.rows

\* Table::where() and the default constructed Query
where == [table |-> TRUE, matches |-> XValues, list |-> FALSE]
NoQuery == [table |-> FALSE, matches |-> XValues, list |-> FALSE]

\* Table::where(list): the query is restricted to the objects of the list
where_list == [table |-> TRUE, matches |-> XValues, list |-> TRUE]

\* Query::and_query: both conditions hold, the table is that of the receiver
and_query(q1, q2) ==
    [table |-> q1.table, matches |-> q1.matches \cap q2.matches, list |-> q1.list]

\* Query::do_find_all: the matching objects in table order, or in the order of
\* the list the query is restricted to, at most limit of them
do_find_all(q, rm, limit) ==
    LET all == IF q.list
               THEN SelectSeq(rm.list, LAMBDA k : k \in DOMAIN rm.rows /\ rm.rows[k] \in q.matches)
               ELSE in_key_order({k \in DOMAIN rm.rows : rm.rows[k] \in q.matches})
    IN  SubSeq(all, 1, Min(limit, Len(all)))

SortDescr == [type |-> "Sort"]
DistinctDescr == [type |-> "Distinct"]
LimitDescr(n) == [type |-> "Limit", limit |-> n]
no_limit == MaxRows + 1

will_apply(ordering, type) == \E i \in 1..Len(ordering) : ordering[i].type = type

\* SortDescriptor::execute: a stable ascending sort by the values val gives
RECURSIVE sort_by(_, _)
sort_by(seq, val) ==
    IF seq = <<>> THEN <<>>
    ELSE LET i == CHOOSE i \in 1..Len(seq) :
                    \A j \in 1..Len(seq) :
                        \/ val[seq[i]] < val[seq[j]]
                        \/ (val[seq[i]] = val[seq[j]] /\ i <= j)
         IN <<seq[i]>> \o sort_by(SubSeq(seq, 1, i - 1) \o SubSeq(seq, i + 1, Len(seq)), val)

\* DistinctDescriptor::execute: the first of the elements with each value
distinct_by(seq, val) ==
    LET firsts == {i \in 1..Len(seq) : \A j \in 1..(i - 1) : val[seq[j]] # val[seq[i]]}
    IN  [n \in 1..Cardinality(firsts) |-> seq[in_key_order(firsts)[n]]]

\* BaseDescriptor::execute on the index pairs (Sort, Distinct)
execute_pairs(descr, pairs, rm) ==
    IF descr.type = "Sort" THEN sort_by(pairs, rm.rows) ELSE distinct_by(pairs, rm.rows)

\* LimitDescriptor::execute on the key values
execute_keys(descr, keys) == SubSeq(keys, 1, Min(descr.limit, Len(keys)))

need_indexpair(descr) == descr.type \in {"Sort", "Distinct"}

\* the lambda use_indexpairs: the valid keys are gathered, the detached ones counted
use_indexpairs(st, rm) ==
    [st EXCEPT !.pairs = SelectSeq(st.keys, LAMBDA k : is_valid_key(rm, k)),
               !.detached = st.detached + Len(SelectSeq(st.keys, LAMBDA k : ~is_valid_key(rm, k))),
               !.using = TRUE]

\* the lambda apply_indexpairs: the detached refs are put at the end
apply_indexpairs(st) ==
    [st EXCEPT !.keys = st.pairs \o [t \in 1..st.detached |-> null_key],
               !.using = FALSE]

\* the loop of apply_descriptors from descriptor desc_ndx on
RECURSIVE apply_descriptors_from(_, _, _, _)
apply_descriptors_from(ordering, desc_ndx, st, rm) ==
    IF desc_ndx > Len(ordering)
    THEN IF st.using THEN apply_indexpairs(st).keys ELSE st.keys
    ELSE IF need_indexpair(ordering[desc_ndx])
    THEN IF st.using
         THEN apply_descriptors_from(ordering, desc_ndx + 1,
                  [st EXCEPT !.pairs = execute_pairs(ordering[desc_ndx], st.pairs, rm)], rm)
         ELSE apply_descriptors_from(ordering, desc_ndx, use_indexpairs(st, rm), rm)
    ELSE IF st.using
         THEN apply_descriptors_from(ordering, desc_ndx, apply_indexpairs(st), rm)
         ELSE apply_descriptors_from(ordering, desc_ndx + 1,
                  [st EXCEPT !.keys = execute_keys(ordering[desc_ndx], st.keys)], rm)

apply_descriptors_mut(ordering, keys, rm) ==
    IF ordering = <<>> \/ keys = <<>> THEN keys
    ELSE apply_descriptors_from(ordering, 2,
             [keys |-> keys, pairs |-> <<>>, detached |-> 0, using |-> FALSE], rm)

\* TableView::apply_descriptors
apply_descriptors(ordering, keys, rm) ==
    IF ordering = <<>> \/ keys = <<>> THEN keys
    ELSE apply_descriptors_from(ordering, 1,
             [keys |-> keys, pairs |-> <<>>, detached |-> 0, using |-> FALSE], rm)

\* a TableView: its keys, its query, its descriptors, the table it last saw
never_seen == (null_key :> 0)
TableView(q, ordering) ==
    [keys |-> <<>>, query |-> q, ordering |-> ordering, last_seen |-> never_seen]

\* what a view depends on: the rows of the table and, for a query restricted
\* to a list, the list
seen(q, rm) == IF q.list THEN <<rm.rows, rm.list>> ELSE rm.rows

\* TableView::is_in_sync (objects are never given a key again, so the table
\* has the content version the view saw iff it has the rows the view saw)
is_in_sync(tv, rm) == tv.last_seen = seen(tv.query, rm)

\* TableView::do_sync
do_sync(tv, rm) ==
    LET limit == IF tv.ordering # <<>> /\ tv.ordering[1].type = "Limit"
                 THEN Min(tv.ordering[1].limit, no_limit) ELSE no_limit
    IN  [tv EXCEPT !.keys = apply_descriptors(tv.ordering, do_find_all(tv.query, rm, limit), rm),
                   !.last_seen = seen(tv.query, rm)]

\* TableView::sync_if_needed
sync_if_needed(tv, rm) == IF is_in_sync(tv, rm) THEN tv ELSE do_sync(tv, rm)

\* Query::find_all(ordering)
find_all(q, ordering, rm) == do_sync(TableView(q, ordering), rm)

without_objects(rows, keys) ==
    [k \in DOMAIN rows \ {keys[i] : i \in 1..Len(keys)} |-> rows[k]]

\* the list after objects were removed: a list of links loses the links to them
links_kept(rm, rows) ==
    IF rm.list_of_objects THEN SelectSeq(rm.list, LAMBDA k : k \in DOMAIN rows) ELSE rm.list

TableView_clear_mut(tv, rm) ==
    LET valid == SelectSeq(tv.keys, LAMBDA k : is_valid_key(rm, k))
        rows == without_objects(rm.rows, valid)
    IN  [tv |-> [tv EXCEPT !.keys = <<>>,
                           !.last_seen = seen(tv.query, [rm EXCEPT !.rows = rows,
                                                                   !.list = links_kept(rm, rows)])],
         rows |-> rows]

\* TableView::clear: the view and the rows of the table after it
TableView_clear(tv, rm) ==
    LET sync_to_keep == is_in_sync(tv, rm) /\ ~will_apply(tv.ordering, "Distinct")
        valid == SelectSeq(tv.keys, LAMBDA k : is_valid_key(rm, k))
        rows == without_objects(rm.rows, valid)
    IN  [tv |-> [tv EXCEPT !.keys = <<>>,   \* batch_erase_objects empties the vector
                           !.last_seen =
                               IF sync_to_keep
                               THEN seen(tv.query, [rm EXCEPT !.rows = rows,
                                                              !.list = links_kept(rm, rows)])
                               ELSE tv.last_seen],
         rows |-> rows]

\* m_list_indices when it holds no vector
NoIndices == <<0>>

\* the constructors of Results: the members they set, the others defaulted
Results(m_mode, m_query, m_table, m_collection, m_table_view, m_descriptor_ordering) ==
    [mode |-> m_mode, query |-> m_query, table |-> m_table, collection |-> m_collection,
     table_view |-> m_table_view, ordering |-> m_descriptor_ordering,
     list_indices |-> NoIndices, update_policy |-> "Auto", notifier |-> FALSE]

\* Results(), Results(r, q, o), Results(r, table), Results(r, coll, o), Results(r, tv, o)
Results_empty == Results("Empty", NoQuery, FALSE, FALSE, TableView(NoQuery, <<>>), <<>>)
Results_query(q, o) == Results("Query", q, q.table, FALSE, TableView(NoQuery, <<>>), o)
Results_table == Results("Table", NoQuery, TRUE, FALSE, TableView(NoQuery, <<>>), <<>>)
Results_collection(o) == Results("Collection", NoQuery, FALSE, TRUE, TableView(NoQuery, <<>>), o)
Results_collection_of_objects(o) ==
    Results("Collection", NoQuery, TRUE, TRUE, TableView(NoQuery, <<>>), o)
Results_tableview(tv, o) == Results("TableView", NoQuery, TRUE, FALSE, tv, o)

NoResults == [mode |-> "none"]

\* Results::is_valid
is_valid(r, rm) ==
    IF r.table THEN rm.table_attached
    ELSE IF r.collection THEN rm.list_attached
    ELSE TRUE

\* Results::validate_read and Results::validate_write: the exception thrown
validate_read(r, rm) == IF ~is_valid(r, rm) THEN "StaleAccessor" ELSE "none"

validate_write_mut(r, rm) ==
    IF ~is_valid(r, rm) THEN "StaleAccessor" ELSE "none"

validate_write(r, rm) ==
    IF validate_read(r, rm) # "none" THEN validate_read(r, rm)
    ELSE IF ~rm.in_transaction THEN "WrongTransactionState"
    ELSE "none"

\* Results::prepare_async(ForCallback{false}): whether m_notifier is set after it
prepare_async(r) ==
    \/ r.notifier
    \/ /\ r.update_policy # "Never"
       /\ (r.query.table \/ r.ordering # <<>>)

\* CollectionBase::sort and CollectionBase::distinct on the indices of the list
list_sort(list) == sort_by([i \in 1..Len(list) |-> i], list)
list_distinct(list, sorted) ==
    IF sorted THEN distinct_by(list_sort(list), list)
    ELSE distinct_by([i \in 1..Len(list) |-> i], list)

\* Results::ensure_up_to_date, case Mode::Collection
collection_up_to_date(r, rm) ==
    IF r.ordering = <<>> THEN r
    ELSE IF rm.list = <<>> THEN [r EXCEPT !.list_indices = <<>>]
    ELSE IF will_apply(r.ordering, "Distinct")
    THEN [r EXCEPT !.list_indices = list_distinct(rm.list, will_apply(r.ordering, "Sort"))]
    ELSE IF will_apply(r.ordering, "Sort")
    THEN [r EXCEPT !.list_indices = list_sort(rm.list)]
    ELSE [r EXCEPT !.list_indices = <<>>]

\* Results::ensure_up_to_date, case Mode::Query
query_up_to_date(r, rm, evaluate_mode) ==
    IF evaluate_mode = "Count" /\ ~will_apply(r.ordering, "Distinct") THEN r
    ELSE [r EXCEPT !.table_view = find_all(r.query, r.ordering, rm),
                   !.mode = "TableView",
                   !.notifier = IF evaluate_mode # "Snapshot" THEN prepare_async(r) ELSE r.notifier]

\* Results::ensure_up_to_date, case Mode::TableView
tableview_up_to_date(r, rm, evaluate_mode) ==
    [r EXCEPT !.notifier = IF evaluate_mode # "Snapshot" THEN prepare_async(r) ELSE r.notifier,
              !.table_view = IF r.update_policy = "Auto"
                             THEN sync_if_needed(r.table_view, rm) ELSE r.table_view]

do_get_type_mut(r, rm) == "Int"

\* Results::do_get_type
do_get_type(r, rm) ==
    IF r.mode = "Collection" /\ ~rm.list_of_objects THEN "Int" ELSE "Object"

\* Results::do_get_query, case Mode::Collection
collection_query(r, rm) == IF rm.list_of_objects THEN where_list ELSE r.query

\* Results::ensure_up_to_date
ensure_up_to_date(r, rm, evaluate_mode) ==
    IF r.update_policy = "Never" THEN r
    ELSE CASE r.mode \in {"Empty", "Table"} -> r
           [] r.mode = "Collection" ->
                IF r.ordering # <<>> /\ do_get_type(r, rm) = "Object"
                THEN query_up_to_date([r EXCEPT !.query = collection_query(r, rm),
                                                !.mode = "Query"], rm, evaluate_mode)
                ELSE collection_up_to_date(r, rm)
           [] r.mode = "Query" -> query_up_to_date(r, rm, evaluate_mode)
           [] r.mode = "TableView" -> tableview_up_to_date(r, rm, evaluate_mode)

\* Mixed: the null value, an ObjLink into the table, an integer of the list
Mixed_null == [type |-> "null", value |-> 0]
ObjLink(key) == [type |-> "TypedLink", value |-> key]
Mixed_int(v) == [type |-> "Int", value |-> v]

\* DescriptorOrdering::get_min_limit
get_min_limit(ordering) ==
    IF ~will_apply(ordering, "Limit") THEN no_limit
    ELSE CHOOSE n \in 0..no_limit :
            /\ \E i \in 1..Len(ordering) : ordering[i].type = "Limit" /\ ordering[i].limit = n
            /\ \A i \in 1..Len(ordering) : ordering[i].type = "Limit" => n <= ordering[i].limit

\* Query::count(ordering)
count(q, ordering, rm) ==
    IF will_apply(ordering, "Distinct") THEN Len(find_all(q, ordering, rm).keys)
    ELSE Len(do_find_all(q, rm, get_min_limit(ordering)))

\* Results::do_size after validate_read and ensure_up_to_date(Count)
do_size(r, rm) ==
    CASE r.mode = "Empty" -> 0
      [] r.mode = "Table" -> Cardinality(DOMAIN rm.rows)
      [] r.mode = "Collection" ->
            IF r.list_indices # NoIndices THEN Len(r.list_indices) ELSE Len(rm.list)
      [] r.mode = "Query" -> count(r.query, r.ordering, rm)
      [] r.mode = "TableView" -> Len(r.table_view.keys)

npos == 0

\* Results::actual_index (positions count from 1, npos is no position)
actual_index(r, ndx) ==
    IF r.list_indices # NoIndices
    THEN IF ndx <= Len(r.list_indices) THEN r.list_indices[ndx] ELSE npos
    ELSE ndx

OutOfBounds == [type |-> "OutOfBounds", value |-> 0]
Unreachable == [type |-> "REALM_UNREACHABLE", value |-> 0]

\* Results::get_any after validate_read and ensure_up_to_date()
get_any(r, rm, ndx) ==
    CASE r.mode = "Empty" -> OutOfBounds
      [] r.mode = "Table" ->
            IF ndx <= Cardinality(DOMAIN rm.rows)
            THEN ObjLink(in_key_order(DOMAIN rm.rows)[ndx]) ELSE OutOfBounds
      [] r.mode = "Collection" ->
            IF actual_index(r, ndx) # npos /\ actual_index(r, ndx) <= Len(rm.list)
            THEN IF rm.list_of_objects THEN ObjLink(rm.list[actual_index(r, ndx)])
                 ELSE Mixed_int(rm.list[actual_index(r, ndx)])
            ELSE OutOfBounds
      [] r.mode = "Query" -> Unreachable
      [] r.mode = "TableView" ->
            IF ndx > Len(r.table_view.keys) THEN OutOfBounds
            ELSE IF r.update_policy = "Never" /\ ~is_valid_key(rm, r.table_view.keys[ndx])
            THEN Mixed_null
            ELSE ObjLink(r.table_view.keys[ndx])

\* Results::do_get_query: the exception it ends with, else the Query
do_get_query(r, rm) ==
    IF validate_read(r, rm) # "none" THEN [thrown |-> validate_read(r, rm), query |-> NoQuery]
    ELSE CASE r.mode \in {"Empty", "Query", "TableView"} ->
                IF r.query.table THEN [thrown |-> "none", query |-> r.query]
                ELSE IF r.table_view.query.table
                THEN [thrown |-> "none", query |-> r.table_view.query]
                \* a TableView without a query: TableView::do_sync fails REALM_ASSERT(m_query)
                ELSE IF r.update_policy = "Auto"
                THEN [thrown |-> "REALM_ASSERT", query |-> NoQuery]
                ELSE [thrown |-> "none",
                      query |-> [table |-> r.table, matches |-> {}, list |-> FALSE]]
           [] r.mode = "Collection" -> [thrown |-> "none", query |-> collection_query(r, rm)]
           [] r.mode = "Table" -> [thrown |-> "none", query |-> where]

with_descriptors_mut(r, rm, descriptors) ==
    IF r.mode = "Collection"
    THEN [thrown |-> "none",
          returned |-> [Results_collection(r.ordering) EXCEPT !.table = r.table]]
    ELSE IF do_get_query(r, rm).thrown # "none"
    THEN [thrown |-> do_get_query(r, rm).thrown, returned |-> NoResults]
    ELSE [thrown |-> "none", returned |-> Results_query(do_get_query(r, rm).query, r.ordering)]

\* Results::sort, limit, distinct and apply_ordering: the Results returned for
\* the descriptors appended, or the exception
with_descriptors(r, rm, descriptors) ==
    IF r.mode = "Collection"
    THEN [thrown |-> "none",
          returned |-> [Results_collection(r.ordering \o descriptors) EXCEPT !.table = r.table]]
    ELSE IF do_get_query(r, rm).thrown # "none"
    THEN [thrown |-> do_get_query(r, rm).thrown, returned |-> NoResults]
    ELSE [thrown |-> "none",
          returned |-> Results_query(do_get_query(r, rm).query, r.ordering \o descriptors)]

\* Results::filter
filter(r, rm, q) ==
    IF will_apply(r.ordering, "Limit")
    THEN [thrown |-> "IllegalOperation", returned |-> NoResults]
    ELSE IF do_get_query(r, rm).thrown # "none"
    THEN [thrown |-> do_get_query(r, rm).thrown, returned |-> NoResults]
    ELSE [thrown |-> "none",
          returned |-> Results_query(and_query(do_get_query(r, rm).query, q), r.ordering)]

snapshot_evaluated_mut(r, rm) ==
    [ensure_up_to_date(r, rm, "Snapshot") EXCEPT !.notifier = FALSE]

\* Results::snapshot() && from case Mode::Query on
snapshot_evaluated(r, rm) ==
    [ensure_up_to_date(r, rm, "Snapshot") EXCEPT
        !.notifier = FALSE,
        !.update_policy = IF do_get_type(ensure_up_to_date(r, rm, "Snapshot"), rm) = "Object"
                          THEN "Never" ELSE @]

\* Results::snapshot
snapshot(r, rm) ==
    IF validate_read(r, rm) # "none"
    THEN [thrown |-> validate_read(r, rm), returned |-> NoResults]
    ELSE CASE r.mode = "Empty" -> [thrown |-> "none", returned |-> Results_empty]
           [] r.mode \in {"Table", "Collection"} ->
                [thrown |-> "none",
                 returned |-> snapshot_evaluated(
                     [r EXCEPT !.query = do_get_query(r, rm).query,
                               !.mode = IF do_get_query(r, rm).query.table THEN "Query" ELSE @], rm)]
           [] OTHER -> [thrown |-> "none", returned |-> snapshot_evaluated(r, rm)]

\* Results::clear after validate_write: the Results, the rows and the list after it
clear(r, rm) ==
    LET u == ensure_up_to_date(r, rm, "Normal")
        cleared == TableView_clear(u.table_view, rm)
    IN  CASE u.mode = "Empty" -> [results |-> u, rows |-> rm.rows, list |-> rm.list]
          [] u.mode = "Table" -> [results |-> u, rows |-> <<>>, list |-> rm.list]
          [] u.mode = "TableView" ->
                [results |-> IF u.update_policy = "Auto"
                             THEN [u EXCEPT !.table_view = cleared.tv] ELSE u,
                 rows |-> cleared.rows, list |-> links_kept(rm, cleared.rows)]
          \* LnkLst::remove_all_target_rows, else CollectionBase::clear
          [] u.mode = "Collection" ->
                [results |-> u,
                 rows |-> IF rm.list_of_objects THEN without_objects(rm.rows, rm.list)
                          ELSE rm.rows,
                 list |-> <<>>]

\* what a call leaves behind: its name and argument, the exception it threw,
\* the value it returned, the Results and the Realm it was made on
returns(name, arg, thrown, value, receiver, returned) ==
    /\ call' = [name |-> name, arg |-> arg, thrown |-> thrown, value |-> value,
                before |-> results, at |-> realm]
    /\ results' = receiver
    /\ derived' = returned
    /\ UNCHANGED <<radix_vars, reset_vars, group_vars, aux_vars>>

NoCall == [name |-> "none"]

\* Results::size
Size ==
    /\ results.mode # "none"
    /\ IF validate_read(results, realm) # "none"
       THEN returns("size", 0, validate_read(results, realm), 0, results, NoResults)
       ELSE returns("size", 0, "none",
                    do_size(ensure_up_to_date(results, realm, "Count"), realm),
                    ensure_up_to_date(results, realm, "Count"), NoResults)
    /\ UNCHANGED realm

\* Results::get_any(ndx)
GetAny(ndx) ==
    /\ results.mode # "none"
    /\ IF validate_read(results, realm) # "none"
       THEN returns("get_any", ndx, validate_read(results, realm), Mixed_null, results, NoResults)
       ELSE LET u == ensure_up_to_date(results, realm, "Normal")
                v == get_any(u, realm, ndx)
            IN  returns("get_any", ndx, IF v = OutOfBounds THEN "OutOfBounds" ELSE "none",
                        v, u, NoResults)
    /\ UNCHANGED realm

\* Results::clear
Clear ==
    /\ results.mode # "none"
    /\ IF validate_write(results, realm) # "none"
       THEN /\ returns("clear", 0, validate_write(results, realm), 0, results, NoResults)
            /\ UNCHANGED realm
       ELSE /\ returns("clear", 0, "none", 0, clear(results, realm).results, NoResults)
            /\ realm' = [realm EXCEPT !.rows = clear(results, realm).rows,
                                      !.list = clear(results, realm).list]

\* a call that returns a new Results: out is [thrown, returned]
returns_Results(name, arg, out) ==
    /\ returns(name, arg, out.thrown, 0, results, out.returned)
    /\ UNCHANGED realm

\* Results::sort(SortDescriptor)
Sort ==
    /\ results.mode # "none"
    /\ Len(results.ordering) < MaxOrdering
    /\ returns_Results("sort", <<SortDescr>>, with_descriptors(results, realm, <<SortDescr>>))

\* Results::distinct(DistinctDescriptor)
Distinct ==
    /\ results.mode # "none"
    /\ Len(results.ordering) < MaxOrdering
    /\ returns_Results("distinct", <<DistinctDescr>>,
                       with_descriptors(results, realm, <<DistinctDescr>>))

\* Results::limit(max_count)
Limit(max_count) ==
    /\ results.mode # "none"
    /\ Len(results.ordering) < MaxOrdering
    /\ returns_Results("limit", <<LimitDescr(max_count)>>,
                       with_descriptors(results, realm, <<LimitDescr(max_count)>>))

\* Results::apply_ordering(ordering)
ApplyOrdering(ordering) ==
    /\ results.mode # "none"
    /\ Len(results.ordering) + Len(ordering) <= MaxOrdering
    /\ returns_Results("apply_ordering", ordering, with_descriptors(results, realm, ordering))

\* Results::filter(q)
Filter(q) ==
    /\ results.mode # "none"
    /\ returns_Results("filter", q, filter(results, realm, q))

\* the values get_any yields at the positions 1..size()
read_all(r, rm) ==
    [ndx \in 1..do_size(ensure_up_to_date(r, rm, "Count"), rm) |->
        get_any(ensure_up_to_date(r, rm, "Normal"), rm, ndx)]

\* Results::snapshot; the value kept is what the snapshot yields when taken
Snapshot ==
    /\ results.mode # "none"
    /\ LET out == snapshot(results, realm)
       IN  returns("snapshot", 0, out.thrown,
                   IF out.thrown = "none" THEN read_all(out.returned, realm) ELSE <<>>,
                   results, out.returned)
    /\ UNCHANGED realm

\* the caller goes on with the Results the last call returned; a Query
\* without a table is not read
Adopt ==
    /\ derived.mode # "none"
    /\ derived.mode = "Query" => derived.table
    /\ results' = derived
    /\ derived' = NoResults
    /\ call' = NoCall
    /\ UNCHANGED <<realm, radix_vars, reset_vars, group_vars, aux_vars>>

\* the data the Results are over
reads_table == results.table \/ (derived.mode # "none" /\ derived.table)
reads_list == results.collection \/ (derived.mode # "none" /\ derived.collection)

\* a change of the Realm: the caller keeps the Results it has and a snapshot
\* it has taken, what an earlier call returned is no longer looked at
changes_to(rm) ==
    /\ realm' = rm
    /\ call' = IF derived.mode # "none" /\ call.name = "snapshot" THEN call ELSE NoCall
    /\ derived' = IF derived.mode # "none" /\ call.name = "snapshot" THEN derived ELSE NoResults
    /\ UNCHANGED <<results, radix_vars, reset_vars, group_vars, aux_vars>>

\* Realm::begin_transaction and Realm::commit_transaction / cancel_transaction
SetTransaction(b) ==
    /\ realm.in_transaction # b
    /\ changes_to([realm EXCEPT !.in_transaction = b])

\* a write to the Realm, made in its write transaction or by another writer
\* and seen after advance_read
write(rm) == changes_to(rm)

\* Table::create_object with the value x
CreateObject(x) ==
    /\ reads_table /\ realm.table_attached
    /\ realm.next_key < MaxRows
    /\ write([realm EXCEPT !.rows = (realm.next_key :> x) @@ realm.rows,
                           !.next_key = @ + 1])

\* Table::remove_object(key)
RemoveObject(key) ==
    /\ reads_table /\ realm.table_attached
    /\ key \in DOMAIN realm.rows
    /\ write([realm EXCEPT !.rows = without_objects(realm.rows, <<key>>),
                           !.list = links_kept(realm, without_objects(realm.rows, <<key>>))])

\* Group::remove_table: the TableRef of the Results is no longer valid
RemoveTable ==
    /\ reads_table /\ realm.table_attached
    /\ ~realm.list_of_objects   \* a table that is the target of links is not removed
    /\ write([realm EXCEPT !.table_attached = FALSE, !.rows = <<>>])

\* Lst<Int>::add(v) and LnkLst::add(key)
ListAdd(v) ==
    /\ reads_list /\ realm.list_attached
    /\ realm.list_of_objects => v \in DOMAIN realm.rows
    /\ Len(realm.list) < MaxList
    /\ write([realm EXCEPT !.list = Append(@, v)])

\* the object that owns the list is removed: the list is detached
ListDetach ==
    /\ reads_list /\ realm.list_attached
    /\ write([realm EXCEPT !.list_attached = FALSE, !.list = <<>>])

\* the inputs of the calls and of the writes
Descriptors == {SortDescr, DistinctDescr, LimitDescr(2)}
Orderings == {<<SortDescr, DistinctDescr>>}
Queries == {[table |-> TRUE, matches |-> {1, 2}, list |-> FALSE]}
Positions == {1, 4}
NewValues == {2}
RemovedKeys == {1}

\* x = [3, 1, 2, 1, 3] in the objects 0..4, the list [2, 1]
InitialRealm ==
    [rows |-> [k \in 0..4 |-> <<3, 1, 2, 1, 3>>[k + 1]], next_key |-> 5,
     table_attached |-> TRUE, list |-> <<2, 1>>, list_attached |-> TRUE,
     list_of_objects |-> FALSE, in_transaction |-> FALSE]

InitialResults(rm) ==
    { Results_empty, Results_table, Results_query(where, <<>>), Results_collection(<<>>),
      Results_tableview(find_all(where, <<>>, rm), <<>>) }

ResultsInit ==
    /\ realm = InitialRealm
    /\ results \in InitialResults(realm)
    /\ derived = NoResults
    /\ call = NoCall
    /\ radix_not_running
    /\ reset_not_running
    /\ group_not_running
    /\ aux_not_running

ResultsNext ==
    \/ Size
    \/ \E ndx \in Positions : GetAny(ndx)
    \/ Clear
    \/ Sort
    \/ Distinct
    \/ \E max_count \in {2} : Limit(max_count)
    \/ \E ordering \in Orderings : ApplyOrdering(ordering)
    \/ \E q \in Queries : Filter(q)
    \/ Snapshot
    \/ Adopt
    \/ \E b \in BOOLEAN : SetTransaction(b)
    \/ \E x \in NewValues : CreateObject(x)
    \/ \E key \in RemovedKeys : RemoveObject(key)
    \/ RemoveTable
    \/ \E v \in NewValues : ListAdd(v)
    \/ ListDetach

ResultsSpec == ResultsInit /\ [][ResultsNext]_vars
(***************************************************************************)
(* Group (group.hpp): the names of its tables, its cascade notification    *)
(* handler and CascadeState; link sets (set.cpp).  One origin object has a *)
(* link column and three set columns, Set<ObjKey>, Set<ObjLink> and        *)
(* Set<Mixed>, whose links go to the objects of a target table.            *)
(***************************************************************************)
MaxTables == 3        \* the group never has more tables than this

\* ------------------------------------------------------------------------
\* Results over a list of links or over a dictionary, and their notifiers
\* ------------------------------------------------------------------------

prepare_async_for_callback_mut(r) == [thrown |-> "none", notifier |-> TRUE]

\* Results::prepare_async(ForCallback{true}) where notifications are
\* available: the exception thrown, whether m_notifier is set after it
prepare_async_for_callback(r) ==
    IF r.notifier THEN [thrown |-> "none", notifier |-> TRUE]
    ELSE IF r.update_policy = "Never" THEN [thrown |-> "LogicError", notifier |-> FALSE]
    ELSE [thrown |-> "none", notifier |-> TRUE]

\* Results::add_notification_callback
AddNotificationCallback ==
    /\ results.mode # "none"
    /\ LET out == prepare_async_for_callback(results)
       IN  returns("add_notification_callback", 0, out.thrown, 0,
                   [results EXCEPT !.notifier = out.notifier], NoResults)
    /\ UNCHANGED realm

\* Dictionary::get_pair(ndx): the dictionary has the values of the list, the
\* key of a value is its position
get_pair(rm, ndx) == [key |-> ndx, value |-> Mixed_int(rm.list[ndx])]

NoPair == [key |-> npos, value |-> OutOfBounds]

\* Results::get_dictionary_element after ensure_up_to_date()
get_dictionary_element(r, rm, ndx) ==
    IF actual_index(r, ndx) # npos /\ actual_index(r, ndx) <= Len(rm.list)
    THEN get_pair(rm, ndx)
    ELSE NoPair

\* Results::get_dictionary_element(ndx) on Results over a dictionary of integers
GetDictionaryElement(ndx) ==
    /\ results.mode = "Collection"
    /\ ~realm.list_of_objects /\ realm.list_attached
    /\ LET u == ensure_up_to_date(results, realm, "Normal")
           v == get_dictionary_element(u, realm, ndx)
       IN  returns("get_dictionary_element", ndx,
                   IF v = NoPair THEN "OutOfBounds" ELSE "none", v, u, NoResults)
    /\ UNCHANGED realm

\* the Results a caller starts with: any of the five kinds over the table and
\* the list of integers, or Results over a list of links to the objects 2, 1
CollectionInit ==
    /\ \E b \in BOOLEAN :
        /\ realm = [InitialRealm EXCEPT !.list_of_objects = b]
        /\ results \in IF b THEN {Results_collection_of_objects(<<>>)}
                       ELSE InitialResults(realm)
    /\ derived = NoResults
    /\ call = NoCall
    /\ radix_not_running
    /\ reset_not_running
    /\ group_not_running
    /\ aux_not_running

CollectionNext ==
    \/ Size
    \/ \E ndx \in Positions : GetAny(ndx)
    \/ \E ndx \in Positions : GetDictionaryElement(ndx)
    \/ Clear
    \/ Sort
    \/ Distinct
    \/ Snapshot
    \/ AddNotificationCallback
    \/ Adopt
    \/ \E b \in BOOLEAN : SetTransaction(b)
    \/ \E key \in RemovedKeys : RemoveObject(key)
    \/ \E v \in NewValues : ListAdd(v)

CollectionSpec == CollectionInit /\ [][CollectionNext]_vars

\* ------------------------------------------------------------------------
\* TableView::sum, min, max and avg over a column of the table
\* ------------------------------------------------------------------------

MaxViewSize == 3      \* the views aggregated list at most this many keys

\* the columns aggregated: type, nullable, collection
Columns ==
    {[type |-> "Int", nullable |-> FALSE, collection |-> FALSE],
     [type |-> "Int", nullable |-> TRUE, collection |-> FALSE],
     [type |-> "Int", nullable |-> FALSE, collection |-> TRUE],
     [type |-> "Timestamp", nullable |-> TRUE, collection |-> FALSE],
     [type |-> "String", nullable |-> TRUE, collection |-> FALSE]}

Actions == {"act_Sum", "act_Min", "act_Max", "act_Average"}

\* std::nullopt, and the Mixed holding the quotient sum / count as a double
NoResult == [type |-> "nullopt", value |-> 0]
Mixed_double(sum, n) == [type |-> "Double", value |-> <<sum, n>>]

\* Obj::is_null(column_key)
is_null(rm, key) == key \in rm.nulls

\* Aggregator<T, action>::AggType before anything was accumulated
NoAggregate == [null |-> TRUE, result |-> 0, count |-> 0]

\* AggType::accumulate(v): the aggregate after it and the value it returns,
\* whether v was taken
accumulate(action, agg, v) ==
    CASE action \in {"act_Sum", "act_Average"} ->
            [agg |-> [null |-> FALSE, result |-> agg.result + v, count |-> agg.count + 1],
             taken |-> TRUE]
      [] action = "act_Min" ->
            IF agg.null \/ v < agg.result
            THEN [agg |-> [null |-> FALSE, result |-> v, count |-> 0], taken |-> TRUE]
            ELSE [agg |-> agg, taken |-> FALSE]
      [] action = "act_Max" ->
            IF agg.null \/ v > agg.result
            THEN [agg |-> [null |-> FALSE, result |-> v, count |-> 0], taken |-> TRUE]
            ELSE [agg |-> agg, taken |-> FALSE]

\* AggType::result()
result_of(action, agg) ==
    IF action = "act_Average" THEN Mixed_double(agg.result, agg.count)
    ELSE Mixed_int(agg.result)

is_accumulated_mut(tv, rm, tv_index) ==
    /\ tv.keys[tv_index] # null_key
    /\ is_valid_key(rm, tv.keys[tv_index])

\* the entries the loop of aggregate does not skip
is_accumulated(tv, rm, tv_index) ==
    /\ tv.keys[tv_index] # null_key
    /\ is_valid_key(rm, tv.keys[tv_index])
    /\ ~is_null(rm, tv.keys[tv_index])

\* the loop of TableView::aggregate<action, T> from tv_index on
RECURSIVE aggregate_from(_, _, _, _, _)
aggregate_from(action, tv, rm, tv_index, st) ==
    IF tv_index > Len(tv.keys) THEN st
    ELSE IF ~is_accumulated(tv, rm, tv_index)
    THEN aggregate_from(action, tv, rm, tv_index + 1, st)
    ELSE LET acc == accumulate(action, st.agg, rm.rows[tv.keys[tv_index]])
         IN  aggregate_from(action, tv, rm, tv_index + 1,
                [agg |-> acc.agg,
                 non_nulls |-> IF acc.taken THEN st.non_nulls + 1 ELSE st.non_nulls,
                 last_accumulated_key |->
                     IF acc.taken /\ action \in {"act_Min", "act_Max"}
                     THEN tv.keys[tv_index] ELSE st.last_accumulated_key])

\* TableView::aggregate<action, T>: the Mixed returned, *result_count, *return_key
aggregate_T(action, tv, rm) ==
    LET st == aggregate_from(action, tv, rm, 1,
                  [agg |-> NoAggregate, non_nulls |-> 0, last_accumulated_key |-> null_key])
    IN  [result |-> IF ~st.agg.null THEN result_of(action, st.agg)
                    ELSE IF action = "act_Sum" THEN Mixed_int(0)
                    ELSE Mixed_null,
         result_count |-> st.non_nulls,
         return_key |-> st.last_accumulated_key]

NoAggregation == [result |-> NoResult, result_count |-> 0, return_key |-> null_key]

\* TableView::aggregate<action>(column_key, count, return_key)
aggregate(action, tv, rm) ==
    IF rm.column.collection THEN NoAggregation
    ELSE CASE rm.column.type = "Int" -> aggregate_T(action, tv, rm)
           [] rm.column.type = "Timestamp" ->
                IF action \in {"act_Min", "act_Max"} THEN aggregate_T(action, tv, rm)
                ELSE NoAggregation
           [] OTHER -> NoAggregation

\* TableView::sum, min, max, avg: what the caller is given, a count only by avg
\* and a key only by min and max
Aggregate(action) ==
    /\ results.mode = "TableView" /\ call = NoCall
    /\ LET out == aggregate(action, results.table_view, realm)
       IN  returns(action, 0, "none",
                   [result |-> out.result,
                    value_count |-> IF action = "act_Average" THEN out.result_count ELSE 0,
                    return_key |-> IF action \in {"act_Min", "act_Max"}
                                   THEN out.return_key ELSE null_key],
                   results, NoResults)
    /\ UNCHANGED realm

\* the caller is done with the value
Forget ==
    /\ call # NoCall
    /\ call' = NoCall
    /\ UNCHANGED <<realm, results, derived, radix_vars, reset_vars, group_vars, aux_vars>>

\* the key of an object that was removed: the last one the table allocated
StaleKey == MaxRows - 1

RECURSIVE SeqsUpTo(_, _)
SeqsUpTo(S, n) ==
    IF n = 0 THEN {<<>>}
    ELSE SeqsUpTo(S, n - 1) \cup
         {Append(s, x) : s \in {t \in SeqsUpTo(S, n - 1) : Len(t) = n - 1}, x \in S}

\* the objects 0, 1, 2 with the values 3, 1, 2, some of them null where the
\* column is nullable; a view that lists keys of them, detached references
\* and the key of a removed object
AggregateInit ==
    /\ \E col \in Columns, nulls \in SUBSET {0, 1, 2},
          keys \in SeqsUpTo({null_key, 0, 1, 2, StaleKey}, MaxViewSize) :
        /\ ~col.nullable => nulls = {}
        /\ realm = [rows |-> [k \in 0..2 |-> <<3, 1, 2>>[k + 1]], next_key |-> MaxRows,
                    table_attached |-> TRUE, list |-> <<>>, list_attached |-> FALSE,
                    list_of_objects |-> FALSE, in_transaction |-> FALSE,
                    nulls |-> nulls, column |-> col]
        /\ results = Results_tableview([TableView(where, <<>>) EXCEPT !.keys = keys], <<>>)
    /\ derived = NoResults
    /\ call = NoCall
    /\ radix_not_running
    /\ reset_not_running
    /\ group_not_running
    /\ aux_not_running

AggregateNext ==
    \/ \E action \in Actions : Aggregate(action)
    \/ Forget

AggregateSpec == AggregateInit /\ [][AggregateNext]_vars

TableNames == {"class_a", "class_b", "class_c"}
\* the keys of the objects of the target table
Targets == {0, 1}
LinkCol == "link"
SetCols == {"Set<ObjKey>", "Set<ObjLink>", "Set<Mixed>"}

\* the values of the sets: an ObjKey, an ObjLink, a Mixed with a typed link or an integer
ObjKeyValue(key) == [type |-> "Link", value |-> key]
SetValues(col) ==
    CASE col = "Set<ObjKey>" -> {ObjKeyValue(t) : t \in Targets}
      [] col = "Set<ObjLink>" -> {ObjLink(t) : t \in Targets}
      [] col = "Set<Mixed>" -> {ObjLink(0), Mixed_int(7)}

is_link_value(v) == v.type \in {"Link", "TypedLink"}

check_table_name_uniqueness_mut(g, name) == "none"

\* Group::check_table_name_uniqueness: the exception thrown
check_table_name_uniqueness(g, name) ==
    IF \E i \in 1..Len(g.table_names) : g.table_names[i] = name
    THEN "TableNameInUse" ELSE "none"

\* Group::do_add_table: the table is appended to the tables of the group
do_add_table(g, name) == [g EXCEPT !.table_names = Append(@, name)]

\* Group::do_get_table(name): the index of the table, 0 if there is none
do_get_table(g, name) ==
    IF \E i \in 1..Len(g.table_names) : g.table_names[i] = name
    THEN CHOOSE i \in 1..Len(g.table_names) :
            /\ g.table_names[i] = name
            /\ \A j \in 1..(i - 1) : g.table_names[j] # name
    ELSE 0

\* Group::add_table: the exception, the group after it, the table returned
add_table(g, name) ==
    IF check_table_name_uniqueness(g, name) # "none"
    THEN [thrown |-> check_table_name_uniqueness(g, name), group |-> g, table |-> 0,
          was_added |-> FALSE]
    ELSE [thrown |-> "none", group |-> do_add_table(g, name),
          table |-> Len(g.table_names) + 1, was_added |-> TRUE]

\* Group::get_or_add_table
get_or_add_table(g, name) ==
    IF do_get_table(g, name) # 0
    THEN [thrown |-> "none", group |-> g, table |-> do_get_table(g, name), was_added |-> FALSE]
    ELSE [thrown |-> "none", group |-> do_add_table(g, name),
          table |-> Len(g.table_names) + 1, was_added |-> TRUE]

\* Obj::set_backlink and Obj::remove_backlink for the column col of the origin object
set_backlink(gr, col, target) == [gr EXCEPT !.backlinks = @ \cup {<<col, target>>}]
remove_backlink(gr, col, target) == [gr EXCEPT !.backlinks = @ \ {<<col, target>>}]

\* Set<ObjKey>::do_insert, Set<ObjLink>::do_insert, Set<Mixed>::do_insert
Set_do_insert(gr, col, v) ==
    LET linked == IF col = "Set<Mixed>" /\ ~is_link_value(v) THEN gr
                  ELSE set_backlink(gr, col, v.value)
    IN  [linked EXCEPT !.sets[col] = @ \cup {v}]

Set_do_erase_mut(gr, col, v) ==
    LET unlinked == IF col = "Set<Mixed>" THEN gr
                    ELSE remove_backlink(gr, col, v.value)
    IN  [unlinked EXCEPT !.sets[col] = @ \ {v}]

\* Set<ObjKey>::do_erase, Set<ObjLink>::do_erase, Set<Mixed>::do_erase
Set_do_erase(gr, col, v) ==
    LET unlinked == IF col = "Set<Mixed>" /\ ~is_link_value(v) THEN gr
                    ELSE remove_backlink(gr, col, v.value)
    IN  [unlinked EXCEPT !.sets[col] = @ \ {v}]

\* the loop of Set<ObjKey>::do_clear and Set<Mixed>::do_clear
RECURSIVE erase_all(_, _)
erase_all(gr, col) ==
    IF gr.sets[col] = {} THEN gr
    ELSE erase_all(Set_do_erase(gr, col, CHOOSE v \in gr.sets[col] : TRUE), col)

\* Set<T>::do_clear of the class template, which Set<ObjLink> is left with:
\* every link erased has its backlink removed
Set_do_clear_template(gr, col) == erase_all(gr, col)

\* Set<ObjKey>::do_clear and Set<Mixed>::do_clear erase the elements one by
\* one; set.cpp specializes do_clear for these two only
Set_do_clear(gr, col) ==
    IF col \in {"Set<ObjKey>", "Set<Mixed>"} THEN erase_all(gr, col)
    ELSE Set_do_clear_template(gr, col)

\* Obj::nullify_link: the link of the column to the target is taken out
nullify_link(gr, col, target) ==
    IF col = LinkCol
    THEN [gr EXCEPT !.link = null_key, !.backlinks = @ \ {<<col, target>>}]
    ELSE [gr EXCEPT !.sets[col] = {v \in @ : ~(is_link_value(v) /\ v.value = target)},
                    !.backlinks = @ \ {<<col, target>>}]

\* CascadeState::notification_handler
notification_handler(g) == g.handler

enqueue_for_nullification_mut(g, st, src_col_key, target) ==
    [st EXCEPT !.graph = nullify_link(st.graph, src_col_key, target)]

\* CascadeState::enqueue_for_nullification: the links and the state after it
enqueue_for_nullification(g, st, src_col_key, target) ==
    IF ~notification_handler(g)
    THEN [st EXCEPT !.graph = nullify_link(st.graph, src_col_key, target)]
    ELSE [st EXCEPT !.to_be_nullified =
                        Append(@, [origin_table |-> "origin", origin_col_key |-> src_col_key,
                                   origin_key |-> 0, old_target_link |-> ObjLink(target)])]

\* CascadeState::send_notifications: the notifications the handler has got
send_notifications(g, st, delivered) ==
    IF ~notification_handler(g) THEN delivered
    ELSE Append(delivered,
            [rows |-> st.to_be_deleted,
             links |-> [i \in 1..Len(st.to_be_nullified) |->
                          [origin_table |-> st.to_be_nullified[i].origin_table,
                           origin_col_key |-> st.to_be_nullified[i].origin_col_key,
                           origin_key |-> st.to_be_nullified[i].origin_key,
                           old_target_key |-> st.to_be_nullified[i].old_target_link.value]]])

\* Group::is_attached / check_attached: the exception thrown
check_attached(g) == IF ~g.attached THEN "StaleAccessor" ELSE "none"

NoGroupCall == [name |-> "none"]

\* a call on the group or on a set: what it was, what it threw and returned,
\* the names of the tables and the backlinks before it
group_returns(name, arg, thrown, table, was_added) ==
    gcall' = [name |-> name, arg |-> arg, thrown |-> thrown, table |-> table,
              was_added |-> was_added, before |-> this_group.table_names]

group_frame == UNCHANGED <<radix_vars, reset_vars, results_vars, aux_vars>>

\* Group::add_table(name)
AddTable(name) ==
    /\ Len(add_table(this_group, name).group.table_names) <= MaxTables
    /\ IF check_attached(this_group) # "none"
       THEN /\ group_returns("add_table", name, check_attached(this_group), 0, FALSE)
            /\ UNCHANGED this_group
       ELSE /\ group_returns("add_table", name, add_table(this_group, name).thrown,
                             add_table(this_group, name).table, add_table(this_group, name).was_added)
            /\ this_group' = add_table(this_group, name).group
    /\ UNCHANGED <<graph, cascade>>
    /\ group_frame

\* Group::get_or_add_table(name, table_type, &was_added)
GetOrAddTable(name) ==
    /\ Len(get_or_add_table(this_group, name).group.table_names) <= MaxTables
    /\ IF check_attached(this_group) # "none"
       THEN /\ group_returns("get_or_add_table", name, check_attached(this_group), 0, FALSE)
            /\ UNCHANGED this_group
       ELSE /\ group_returns("get_or_add_table", name, "none",
                             get_or_add_table(this_group, name).table,
                             get_or_add_table(this_group, name).was_added)
            /\ this_group' = get_or_add_table(this_group, name).group
    /\ UNCHANGED <<graph, cascade>>
    /\ group_frame

\* the transaction ends: the Group is detached
Detach ==
    /\ this_group.attached
    /\ this_group' = [this_group EXCEPT !.attached = FALSE]
    /\ gcall' = NoGroupCall
    /\ UNCHANGED <<graph, cascade>>
    /\ group_frame

\* Group::set_cascade_notification_handler
SetCascadeNotificationHandler(registered) ==
    /\ cascade.pc = "idle"
    /\ this_group.attached
    /\ this_group.handler # registered
    /\ this_group' = [this_group EXCEPT !.handler = registered]
    /\ UNCHANGED <<graph, cascade, gcall>>
    /\ group_frame

\* Set<T>::insert(value): a value the set holds is not inserted again
SetInsert(col, v) ==
    /\ cascade.pc = "idle"
    /\ this_group.attached
    /\ is_link_value(v) => v.value \in graph.objects
    /\ graph' = IF v \in graph.sets[col] THEN graph ELSE Set_do_insert(graph, col, v)
    /\ UNCHANGED <<this_group, cascade, gcall>>
    /\ group_frame

\* Set<T>::erase(value)
SetErase(col, v) ==
    /\ cascade.pc = "idle"
    /\ this_group.attached
    /\ graph' = IF v \in graph.sets[col] THEN Set_do_erase(graph, col, v) ELSE graph
    /\ UNCHANGED <<this_group, cascade, gcall>>
    /\ group_frame

\* Set<T>::clear
SetClear(col) ==
    /\ cascade.pc = "idle"
    /\ this_group.attached
    /\ graph' = IF graph.sets[col] # {} THEN Set_do_clear(graph, col) ELSE graph
    /\ UNCHANGED <<this_group, cascade, gcall>>
    /\ group_frame

\* Obj::set(link column, target)
SetLink(target) ==
    /\ cascade.pc = "idle"
    /\ this_group.attached
    /\ target \in graph.objects
    /\ graph.link = null_key
    /\ graph' = set_backlink([graph EXCEPT !.link = target], LinkCol, target)
    /\ UNCHANGED <<this_group, cascade, gcall>>
    /\ group_frame

\* Table::nullify_links: every backlink of the target is enqueued
RECURSIVE nullify_links(_, _, _, _)
nullify_links(g, st, cols, target) ==
    IF cols = {} THEN st
    ELSE nullify_links(g, enqueue_for_nullification(g, st, CHOOSE c \in cols : TRUE, target),
                       cols \ {CHOOSE c \in cols : TRUE}, target)

\* Table::remove_object(target) up to the cascade notification: the object is
\* put on m_to_be_deleted and its incoming links are enqueued for nullification
RemoveObjectBegins(target) ==
    /\ cascade.pc = "idle"
    /\ this_group.attached
    /\ target \in graph.objects
    /\ LET st == nullify_links(this_group,
                     [graph |-> graph, to_be_deleted |-> <<[table_key |-> "target", key |-> target]>>,
                      to_be_nullified |-> <<>>],
                     {c \in SetCols \cup {LinkCol} : <<c, target>> \in graph.backlinks}, target)
       IN  /\ graph' = st.graph
           /\ cascade' = [pc |-> "notify", before |-> graph,
                          to_be_deleted |-> st.to_be_deleted,
                          to_be_nullified |-> st.to_be_nullified, delivered |-> <<>>]
    /\ UNCHANGED <<this_group, gcall>>
    /\ group_frame

\* Table::remove_recursive: the cascade notification is sent
RemoveObjectNotifies ==
    /\ cascade.pc = "notify"
    /\ cascade' = [cascade EXCEPT !.pc = "apply",
                                  !.delivered = send_notifications(this_group, cascade, @)]
    /\ UNCHANGED <<this_group, graph, gcall>>
    /\ group_frame

\* the links enqueued are nullified
RECURSIVE nullify_enqueued(_, _)
nullify_enqueued(gr, to_be_nullified) ==
    IF to_be_nullified = <<>> THEN gr
    ELSE nullify_enqueued(nullify_link(gr, Head(to_be_nullified).origin_col_key,
                                       Head(to_be_nullified).old_target_link.value),
                          Tail(to_be_nullified))

\* Table::remove_recursive after the notification: the links are nullified
\* and the objects removed
RemoveObjectEnds ==
    /\ cascade.pc = "apply"
    /\ graph' = [nullify_enqueued(graph, cascade.to_be_nullified) EXCEPT
                    !.objects = @ \ {cascade.to_be_deleted[i].key : i \in 1..Len(cascade.to_be_deleted)}]
    /\ cascade' = [cascade EXCEPT !.pc = "idle", !.to_be_deleted = <<>>, !.to_be_nullified = <<>>]
    /\ UNCHANGED <<this_group, gcall>>
    /\ group_frame

NoCascade ==
    [pc |-> "idle", before |-> <<>>, to_be_deleted |-> <<>>, to_be_nullified |-> <<>>,
     delivered |-> <<>>]

GroupInit ==
    /\ this_group = [table_names |-> <<>>, handler |-> FALSE, attached |-> TRUE]
    /\ graph = [objects |-> Targets, link |-> null_key, sets |-> [col \in SetCols |-> {}],
                backlinks |-> {}]
    /\ cascade = NoCascade
    /\ gcall = NoGroupCall
    /\ radix_not_running
    /\ reset_not_running
    /\ results_not_running
    /\ aux_not_running

GroupNext ==
    \/ \E name \in TableNames : AddTable(name)
    \/ \E name \in TableNames : GetOrAddTable(name)
    \/ Detach

LinkNext ==
    \/ \E registered \in BOOLEAN : SetCascadeNotificationHandler(registered)
    \/ \E col \in SetCols : \E v \in SetValues(col) : SetInsert(col, v)
    \/ \E col \in SetCols : \E v \in SetValues(col) : SetErase(col, v)
    \/ \E col \in SetCols : SetClear(col)
    \/ \E target \in Targets : SetLink(target)
    \/ \E target \in Targets : RemoveObjectBegins(target)
    \/ RemoveObjectNotifies
    \/ RemoveObjectEnds

\* the tables of a Group
GroupSpec == GroupInit /\ [][GroupNext]_vars

\* the objects of one target table, the links to them and their removal
LinkSpec == GroupInit /\ [][LinkNext]_vars

(***************************************************************************)
(* IndexKey<ChunkWidth> on int64_t at its full width.  A 64-bit word is    *)
(* the set of the positions of its one bits, bit 0 being the lowest.       *)
(***************************************************************************)
Int64Bits == 64

\* ~uint64_t(0)
all_ones == 0..(Int64Bits - 1)

\* operator& on uint64_t
w_and(a, b) == a \cap b

\* operator>> and operator<< on uint64_t, for shifts below 64
w_shr(a, n) == {p - n : p \in {q \in a : q >= n}}
w_shl(a, n) == {p + n : p \in {q \in a : q + n < Int64Bits}}

\* the number a word stands for, for words below 2^31
RECURSIVE w_value(_)
w_value(a) ==
    IF a = {} THEN 0
    ELSE Pow2(CHOOSE p \in a : TRUE) + w_value(a \ {CHOOSE p \in a : TRUE})

\* a < b for two words read as uint64_t: the highest bit they differ in is b's
w_unsigned_less(a, b) ==
    /\ a # b
    /\ \E p \in b \ a : \A q \in (a \ b) : q < p

\* a < b for two words read as int64_t
w_signed_less(a, b) ==
    IF ((Int64Bits - 1) \in a) # ((Int64Bits - 1) \in b)
    THEN (Int64Bits - 1) \in a
    ELSE w_unsigned_less(a, b)

\* IndexKey::c_int_mask
c_int_mask_64(width) == w_shl(w_shr(all_ones, Int64Bits - width), Int64Bits - width)

\* IndexKey::IndexKey(Mixed)
IndexKey(width, m) == [ChunkWidth |-> width, m_mixed |-> m, m_offset |-> 0]

get_mut(key) ==
    IF key.m_mixed.is_null THEN [has_value |-> FALSE, value |-> 0, ok |-> TRUE]
    ELSE LET ret == w_and(w_shr(key.m_mixed.bits, key.m_offset * key.ChunkWidth),
                          w_shr(all_ones, Int64Bits - key.ChunkWidth))
         IN  [has_value |-> TRUE, value |-> w_value(ret), ok |-> TRUE]

\* IndexKey::get: the optional chunk; ok is FALSE when the assertion fails
get(key) ==
    IF key.m_mixed.is_null THEN [has_value |-> FALSE, value |-> 0, ok |-> TRUE]
    ELSE LET rshift0 == (1 + key.m_offset) * key.ChunkWidth
             rshift == IF rshift0 < Int64Bits THEN Int64Bits - rshift0 ELSE 0
             ret == w_shr(w_and(key.m_mixed.bits,
                                w_shr(c_int_mask_64(key.ChunkWidth),
                                      key.m_offset * key.ChunkWidth)),
                          rshift)
         IN  IF ret \subseteq 0..(key.ChunkWidth - 1)
             THEN [has_value |-> TRUE, value |-> w_value(ret), ok |-> TRUE]
             ELSE [has_value |-> FALSE, value |-> 0, ok |-> FALSE]

\* IndexKey::next
next(key) == [key EXCEPT !.m_offset = @ + 1]

is_last_mut(key) ==
    IF key.m_mixed.is_null THEN TRUE
    ELSE (key.m_offset * key.ChunkWidth) + key.ChunkWidth > Int64Bits

\* IndexKey::is_last
is_last(key) ==
    IF key.m_mixed.is_null THEN TRUE
    ELSE (key.m_offset * key.ChunkWidth) + key.ChunkWidth >= Int64Bits

\* the chunk widths of TEST_TYPES(IndexKey_Get)
ChunkWidths == 4..10

\* int64 values: 0, 1, 4, 5, -1, -2, the smallest and the largest int64,
\* 0xF00000000000000, 0xFFF000000000000, the highest chunk alone, values
\* with the high bit and low bits set
Int64Values ==
    {{}, {0}, {2}, {0, 2}, 0..63, 1..63, {63}, 0..62, 56..59, 48..59, 60..63, 54..63,
     {62}, {0, 63}, {5, 63}}

KeyMixed ==
    {[is_null |-> TRUE, bits |-> {}]} \cup {[is_null |-> FALSE, bits |-> b] : b \in Int64Values}

\* the chunks read so far, the one at the present offset being the last
chunks_with(chunks, key) ==
    IF get(key).has_value THEN Append(chunks, get(key).value) ELSE chunks

KeyInit ==
    /\ \E width \in ChunkWidths : \E m \in KeyMixed :
          index_key = [key |-> IndexKey(width, m),
                       chunks |-> chunks_with(<<>>, IndexKey(width, m)),
                       asserted |-> get(IndexKey(width, m)).ok]
    /\ radix_not_running
    /\ reset_not_running
    /\ results_not_running
    /\ group_not_running
    /\ node_not_running
    /\ db_not_running
    /\ extra_not_running

\* key.next(); key.get() while the key is not at its last chunk
KeyNext ==
    /\ ~is_last(index_key.key)
    /\ index_key' = [key |-> next(index_key.key),
                     chunks |-> chunks_with(index_key.chunks, next(index_key.key)),
                     asserted |-> index_key.asserted /\ get(next(index_key.key)).ok]
    /\ UNCHANGED <<radix_vars, reset_vars, results_vars, group_vars, index_node, this_db, extra_vars>>

\* an IndexKey read from its first chunk to its last
KeySpec == KeyInit /\ [][KeyNext]_vars

(***************************************************************************)
(* One IndexNode on its own: entries are put under chunks and removed      *)
(* again, with the functions insert and erase use for it.                  *)
(***************************************************************************)

\* the values a chunk can have
AllChunks == 0..(Pow2(ChunkWidth) - 1)

NodeInit ==
    /\ index_node = [arr |-> IndexNode_create, chunks |-> {}]
    /\ radix_not_running
    /\ reset_not_running
    /\ results_not_running
    /\ group_not_running
    /\ key_not_running
    /\ db_not_running
    /\ extra_not_running

node_frame == UNCHANGED <<radix_vars, reset_vars, results_vars, group_vars, index_key, this_db, extra_vars>>

\* IndexNode::insert for a chunk without an entry: do_insert_to_population,
\* then Array::insert at the index it returned; the entry is tagged with its chunk
InsertChunk(chunk) ==
    /\ chunk \notin index_node.chunks
    /\ index_node' =
          [arr |-> Array_insert(do_insert_to_population(index_node.arr, chunk).arr,
                                do_insert_to_population(index_node.arr, chunk).real_index,
                                Tagged(chunk)),
           chunks |-> index_node.chunks \cup {chunk}]
    /\ node_frame

\* IndexNode::erase of the entry of a chunk: index_of, then do_remove
RemoveChunk(chunk) ==
    /\ index_of(index_node.arr, chunk) # -1
    /\ index_node' = [arr |-> do_remove(index_node.arr, index_of(index_node.arr, chunk)),
                      chunks |-> index_node.chunks \ {chunk}]
    /\ node_frame

NodeNext ==
    \/ \E chunk \in AllChunks : InsertChunk(chunk)
    \/ \E chunk \in AllChunks : RemoveChunk(chunk)

NodeSpec == NodeInit /\ [][NodeNext]_vars

(***************************************************************************)
(* The DB and its transactions.  The nodes of a snapshot are a top array   *)
(* with one ref per table and one node per table holding the number of     *)
(* its objects; a write transaction changes them by copy-on-write and      *)
(* allocates from a free list whose entries carry a version.               *)
(***************************************************************************)

MaxVersion == 3
MaxRefs == 7
MaxCount == 1

Txns == {1, 2, 3}
DbTables == {"class_a", "class_b"}

NoNode == [kind |-> "none"]

\* the state of every table of the snapshot with this top-ref
observable_state(d, top_ref) ==
    [tb \in DbTables |-> d.heap[d.heap[top_ref].tables[tb]].count]

\* the latest snapshot version
latest_version(d) == Len(d.snapshots)

\* the versions that are pinned: the latest one, which the next
\* transaction binds to, and those a live transaction is bound to
pinned_versions(d) ==
    {latest_version(d)} \cup {d.txns[t].version : t \in {u \in Txns : d.txns[u].stage # "none"}}

\* a freed ref is reusable only after no snapshot <= its version remains pinned
reusable(d, entry) == \A v \in pinned_versions(d) : v > entry.version

\* alloc: an entry of the free list that is reusable, or else the file is extended
can_alloc(d) ==
    \/ \E entry \in d.free_list : reusable(d, entry)
    \/ d.file_size < MaxRefs

alloc(d) ==
    IF \E entry \in d.free_list : reusable(d, entry)
    THEN [db |-> [d EXCEPT !.free_list =
                      {e \in @ : e.ref # (CHOOSE entry \in d.free_list : reusable(d, entry)).ref}],
          ref |-> (CHOOSE entry \in d.free_list : reusable(d, entry)).ref]
    ELSE [db |-> [d EXCEPT !.file_size = @ + 1], ref |-> d.file_size + 1]

\* free(ref): the ref goes to the free list with the current version
free(d, ref, version) ==
    [d EXCEPT !.free_list = @ \cup {[ref |-> ref, version |-> version]}]

copy_on_write_mut(d, t, ref) == [db |-> d, ref |-> ref]

\* copy-on-write of the node at ref for transaction t: a node that is
\* already dirty is changed in place; otherwise a fresh node is allocated,
\* the payload copied and the old ref freed
copy_on_write(d, t, ref) ==
    IF ref \in d.txns[t].dirty THEN [db |-> d, ref |-> ref]
    ELSE [db |-> [free(alloc(d).db, ref, d.txns[t].version)
                     EXCEPT !.heap[alloc(d).ref] = d.heap[ref],
                            !.txns[t].dirty = @ \cup {alloc(d).ref}],
          ref |-> alloc(d).ref]

\* the number of refs a mutation of a table may have to allocate
can_copy_on_write(d, t, tb) ==
    \/ d.heap[d.txns[t].top_ref].tables[tb] \in d.txns[t].dirty
    \/ /\ can_alloc(d)
       /\ d.txns[t].top_ref \in d.txns[t].dirty \/ can_alloc(alloc(d).db)

NoTxn == [stage |-> "none", version |-> 0, top_ref |-> 0, dirty |-> {}]

DbInit ==
    /\ this_db = [heap |-> [r \in 1..MaxRefs |->
                              IF r = 1 THEN [kind |-> "top",
                                             tables |-> [tb \in DbTables |->
                                                           IF tb = "class_a" THEN 2 ELSE 3]]
                              ELSE IF r \in {2, 3} THEN [kind |-> "table", count |-> 0]
                              ELSE NoNode],
                  file_size |-> 3,
                  snapshots |-> <<1>>,
                  free_list |-> {},
                  write_lock |-> 0,
                  txns |-> [t \in Txns |-> NoTxn],
                  history |-> <<[version |-> 1, state |-> [tb \in DbTables |-> 0]]>>]
    /\ radix_not_running
    /\ reset_not_running
    /\ results_not_running
    /\ group_not_running
    /\ key_not_running
    /\ node_not_running
    /\ extra_not_running

db_frame == UNCHANGED <<radix_vars, reset_vars, results_vars, group_vars, index_key, index_node, extra_vars>>

\* a read transaction binds to the latest snapshot (version, top-ref)
start_read(t) ==
    /\ this_db.txns[t].stage = "none"
    /\ this_db' = [this_db EXCEPT !.txns[t] =
                      [stage |-> "reading", version |-> latest_version(this_db),
                       top_ref |-> this_db.snapshots[latest_version(this_db)], dirty |-> {}]]
    /\ db_frame

\* a reader advances to the latest version and re-seats from the new top-ref
advance_read(t) ==
    /\ this_db.txns[t].stage = "reading"
    /\ this_db.txns[t].version < latest_version(this_db)
    /\ this_db' = [this_db EXCEPT !.txns[t].version = latest_version(this_db),
                                  !.txns[t].top_ref = this_db.snapshots[latest_version(this_db)]]
    /\ db_frame

end_read(t) ==
    /\ this_db.txns[t].stage = "reading"
    /\ this_db' = [this_db EXCEPT !.txns[t] = NoTxn]
    /\ db_frame

\* a write transaction acquires the write lock and starts from the latest snapshot
start_write(t) ==
    /\ this_db.txns[t].stage = "none"
    /\ this_db.write_lock = 0
    /\ this_db' = [this_db EXCEPT !.write_lock = t,
                                  !.txns[t] =
                      [stage |-> "writing", version |-> latest_version(this_db),
                       top_ref |-> this_db.snapshots[latest_version(this_db)], dirty |-> {}]]
    /\ db_frame

\* the write transaction creates an object in a table: the node of the
\* table is changed through copy-on-write, then the slot of its parent
db_create_object(d, t, tb) ==
    [copy_on_write(copy_on_write(d, t, d.heap[d.txns[t].top_ref].tables[tb]).db,
                   t, d.txns[t].top_ref).db
        EXCEPT !.heap[copy_on_write(d, t, d.heap[d.txns[t].top_ref].tables[tb]).ref].count = @ + 1,
               !.heap[copy_on_write(copy_on_write(d, t, d.heap[d.txns[t].top_ref].tables[tb]).db,
                                    t, d.txns[t].top_ref).ref].tables[tb] =
                   copy_on_write(d, t, d.heap[d.txns[t].top_ref].tables[tb]).ref,
               !.txns[t].top_ref =
                   copy_on_write(copy_on_write(d, t, d.heap[d.txns[t].top_ref].tables[tb]).db,
                                 t, d.txns[t].top_ref).ref]

create_object(t, tb) ==
    /\ this_db.txns[t].stage = "writing"
    /\ observable_state(this_db, this_db.txns[t].top_ref)[tb] < MaxCount
    /\ can_copy_on_write(this_db, t, tb)
    /\ this_db' = db_create_object(this_db, t, tb)
    /\ db_frame

\* commit: the new top-ref is published as the next version, then the
\* write lock is released
commit(t) ==
    /\ this_db.txns[t].stage = "writing"
    /\ latest_version(this_db) < MaxVersion
    /\ this_db' = [this_db EXCEPT
                      !.snapshots = Append(@, this_db.txns[t].top_ref),
                      !.history = Append(@, [version |-> latest_version(this_db) + 1,
                                             state |-> observable_state(this_db,
                                                                        this_db.txns[t].top_ref)]),
                      !.write_lock = 0,
                      !.txns[t] = NoTxn]
    /\ db_frame

DbNext ==
    \/ \E t \in Txns : start_read(t)
    \/ \E t \in Txns : advance_read(t)
    \/ \E t \in Txns : end_read(t)
    \/ \E t \in Txns : start_write(t)
    \/ \E t \in Txns, tb \in DbTables : create_object(t, tb)
    \/ \E t \in Txns : commit(t)

DbSpec == DbInit /\ [][DbNext]_vars

(***************************************************************************)
(* Claims about Results.                                                   *)
(***************************************************************************)
DerivingCalls == {"sort", "distinct", "filter", "limit", "apply_ordering"}

\* the receiver of the last call has the mode, query, descriptor ordering and
\* update policy it had before the call
receiver_kept ==
    /\ results.mode = call.before.mode
    /\ results.query = call.before.query
    /\ results.ordering = call.before.ordering
    /\ results.update_policy = call.before.update_policy

C12_WitnessCollection ==
    /\ call.name = "sort"
    /\ call.before.mode = "Collection"
    /\ derived.ordering = <<SortDescr>>
\* the snapshot the last call returned yields now what it yielded when it was
\* taken, an object removed since then reading as null
snapshot_is_stable ==
    /\ Len(read_all(derived, realm)) = Len(call.value)
    /\ \A ndx \in 1..Len(call.value) :
           \/ read_all(derived, realm)[ndx] = call.value[ndx]
           \/ /\ call.value[ndx].type = "TypedLink"
              /\ ~is_valid_key(realm, call.value[ndx].value)
              /\ read_all(derived, realm)[ndx] = Mixed_null

C13_WitnessList ==
    /\ call.name = "snapshot"
    /\ call.thrown = "none"
    /\ call.before.mode = "Collection"
    /\ realm.list_attached
    /\ Len(realm.list) > Len(call.value)
\* the descriptors of the ordering from position i on, applied one after the
\* other to a sequence of object keys
RECURSIVE descriptors_applied(_, _, _, _)
descriptors_applied(ordering, i, keys, rows) ==
    IF i > Len(ordering) THEN keys
    ELSE descriptors_applied(ordering, i + 1,
             CASE ordering[i].type = "Sort" -> sort_by(keys, rows)
               [] ordering[i].type = "Distinct" -> distinct_by(keys, rows)
               [] ordering[i].type = "Limit" ->
                     SubSeq(keys, 1, Min(ordering[i].limit, Len(keys))),
             rows)

\* the rows matching the query, in table order, with the ordering applied
materialized(q, ordering, rm) ==
    descriptors_applied(ordering, 1,
        in_key_order({k \in DOMAIN rm.rows : rm.rows[k] \in q.matches}), rm.rows)

\* the last call was a read that evaluated a live Results of objects
read_of_objects ==
    /\ call.name \in {"size", "get_any"}
    /\ call.thrown \in {"none", "OutOfBounds"}
    /\ call.before.mode \in {"Table", "Query", "TableView"}
    /\ call.before.update_policy = "Auto"

C14_MaterializationUnlessClearedUnderLimit ==
    ( /\ read_of_objects
      /\ ~(will_apply(call.before.ordering, "Limit")
             /\ is_in_sync(call.before.table_view, realm)) ) =>
        LET m == materialized(do_get_query(call.before, realm).query, call.before.ordering, realm)
        IN  /\ call.name = "size" => call.value = Len(m)
            /\ call.name = "get_any" =>
                   call.value = IF call.arg <= Len(m) THEN ObjLink(m[call.arg]) ELSE OutOfBounds
            /\ results.mode = "TableView" => results.table_view.keys = m

\* sort then distinct over x = [3, 1, 2, 1, 3] was evaluated, a row with x = 2
\* was inserted, and size() evaluated the Results again: it is 3
C14_Witness ==
    /\ call.name = "size"
    /\ call.thrown = "none"
    /\ call.before.ordering = <<SortDescr, DistinctDescr>>
    /\ call.before.mode = "TableView"
    /\ call.before.table_view.last_seen = InitialRealm.rows
    /\ do_get_query(call.before, realm).query = where
    /\ DOMAIN realm.rows = 0..5
    /\ call.value = 3
    /\ [n \in 1..3 |-> realm.rows[results.table_view.keys[n]]] = <<1, 2, 3>>
\* the last call removed nothing and left the mode and the table view alone
nothing_touched ==
    /\ realm = call.at
    /\ results.mode = call.before.mode
    /\ results.table_view = call.before.table_view

C15_WitnessStale ==
    /\ call.name = "size"
    /\ call.thrown = "StaleAccessor"
    /\ call.before.table
    /\ ~realm.table_attached

(***************************************************************************)
(* Claims about the tables of a Group, the link sets and the cascade      *)
(* notification.                                                           *)
(***************************************************************************)

\* the name is the name of one of the tables
name_in_use(table_names, name) == \E i \in 1..Len(table_names) : table_names[i] = name

\* C18: no two tables of a group share a name; on an attached group,
\* add_table with a name in use throws TableNameInUse and leaves the tables
\* as they were, and get_or_add_table with a name in use returns the table
\* of that name, sets was_added to false and adds nothing.
C18_TableNamesUnique ==
    /\ \A i, j \in 1..Len(this_group.table_names) :
          i # j => this_group.table_names[i] # this_group.table_names[j]
    /\ ( /\ gcall.name = "add_table"
         /\ gcall.thrown # "StaleAccessor"
         /\ name_in_use(gcall.before, gcall.arg) )
       => /\ gcall.thrown = "TableNameInUse"
          /\ this_group.table_names = gcall.before
    /\ ( /\ gcall.name = "get_or_add_table"
         /\ gcall.thrown # "StaleAccessor"
         /\ name_in_use(gcall.before, gcall.arg) )
       => /\ gcall.thrown = "none"
          /\ gcall.table \in 1..Len(gcall.before)
          /\ gcall.before[gcall.table] = gcall.arg
          /\ ~gcall.was_added
          /\ this_group.table_names = gcall.before

\* add_table has thrown TableNameInUse on a group of two tables
C18_Witness ==
    /\ gcall.name = "add_table"
    /\ gcall.thrown = "TableNameInUse"
    /\ Len(this_group.table_names) = 2

\* the set of the column holds a link to the target
holds_link(col, target) ==
    \E v \in graph.sets[col] : is_link_value(v) /\ v.value = target

\* the backlinks of every target name the column iff its set holds a link to it
backlinks_match_sets ==
    \A col \in SetCols : \A target \in Targets :
        (<<col, target>> \in graph.backlinks) <=> holds_link(col, target)

\* an insert or an erase of a Mixed value that is no link
non_link_write ==
    \E v \in SetValues("Set<Mixed>") :
        /\ ~is_link_value(v)
        /\ SetInsert("Set<Mixed>", v) \/ SetErase("Set<Mixed>", v)

rows_to_remove == {cascade.to_be_deleted[i].key : i \in 1..Len(cascade.to_be_deleted)}

\* the links to those objects before the removal began, as (origin table,
\* column, origin object, old target)
links_to_nullify ==
    {[origin_table |-> "origin", origin_col_key |-> bl[1], origin_key |-> 0,
      old_target_key |-> bl[2]] : bl \in {b \in cascade.before.backlinks : b[2] \in rows_to_remove}}

\* the links a notification lists
links_listed(notification) ==
    {notification.links[i] : i \in 1..Len(notification.links)}

\* C16: with a handler registered, the removal of an object delivers one
\* CascadeNotification that lists the rows to be removed and the links to
\* be nullified, and up to the delivery no link is nullified and no row
\* removed; with no handler the links are nullified at once and no
\* notification is sent.
C16_NotifiedBeforeAnyChange ==
    /\ (cascade.pc \in {"notify", "apply"} /\ this_group.handler)
       => graph = cascade.before
    /\ (cascade.pc = "apply" /\ this_group.handler)
       => /\ Len(cascade.delivered) = 1
          /\ cascade.delivered[1].rows = cascade.to_be_deleted
          /\ rows_to_remove # {}
          /\ links_listed(cascade.delivered[1]) = links_to_nullify
          /\ Len(cascade.delivered[1].links) = Cardinality(links_to_nullify)
    /\ (cascade.pc \in {"notify", "apply"} /\ ~this_group.handler)
       => /\ cascade.delivered = <<>>
          /\ cascade.to_be_nullified = <<>>
          /\ \A b \in graph.backlinks : b[2] \notin rows_to_remove
          /\ \A col \in SetCols : \A target \in rows_to_remove : ~holds_link(col, target)
          /\ graph.link \notin rows_to_remove

\* the handler has got a notification that lists two links to the object
\* that is about to be removed
C16_Witness ==
    /\ cascade.pc = "apply"
    /\ this_group.handler
    /\ Len(cascade.delivered) = 1
    /\ Len(cascade.delivered[1].links) = 2
    /\ graph.link \in rows_to_remove

(***************************************************************************)
(* Claims about insert followed by erase on the radix index.               *)
(***************************************************************************)

\* the index after insert(key, m) and erase(key, m) on the index arr
insert_then_erase(arr, key, m) ==
    IF IndexNode_insert(arr, key, m).ok
    THEN IndexNode_erase(IndexNode_insert(arr, key, m).arr, key, m)
    ELSE [arr |-> IndexNode_insert(arr, key, m).arr, ok |-> FALSE, collapse |-> FALSE]

\* C19: in every index state reached, for every ObjKey and value not yet
\* indexed, insert followed by erase fails no assertion and leaves every
\* node of the index as it was: population bitmaps, prefix, nulls slot,
\* children and lists.
C19_InsertEraseIsIdentity ==
    ~aborted =>
        \A key \in ObjKeys \ DOMAIN column : \A m \in Values :
            /\ insert_then_erase(root, key, m).ok
            /\ insert_then_erase(root, key, m).arr = root

\* what holds of the code: where no assertion fails, insert followed by
\* erase leaves the answers of find_all as they were
C19_InsertEraseKeepsLookups ==
    ~aborted =>
        \A key \in ObjKeys \ DOMAIN column : \A m \in Values :
            insert_then_erase(root, key, m).ok =>
                \A v \in Values :
                    seq_to_set(IndexNode_find_all(insert_then_erase(root, key, m).arr, v))
                        = seq_to_set(IndexNode_find_all(root, v))

\* the root after the first insert of a value into an empty index: one
\* tagged ObjKey under a prefix that covers every chunk but the last
single_value_leaf(key, m) == IndexNode_insert(IndexNode_create, key, m).arr

\* C20: an erase that leaves an interior node with a single child folds it
\* upward: when two values that share their first chunk have been inserted
\* into an empty index, the erase of the second leaves the root as it was
\* after the first insert, a single-value leaf whose prefix covers the full
\* path of the remaining key.
C20_SingleChildCollapsed ==
    \A k0, k1 \in LiveKeys : \A a, b \in {i \in IntValues : i >= 0} :
        ( /\ ~aborted
          /\ k0 # k1 /\ a # b
          /\ column = (k0 :> MixedInt(a)) @@ (k1 :> MixedInt(b))
          /\ root = IndexNode_insert(single_value_leaf(k0, MixedInt(a)), k1, MixedInt(b)).arr )
        => /\ IndexNode_erase(root, k1, MixedInt(b)).ok
           /\ IndexNode_erase(root, k1, MixedInt(b)).arr = single_value_leaf(k0, MixedInt(a))
           /\ Len(get_prefix(IndexNode_erase(root, k1, MixedInt(b)).arr)) = c_key_chunks_per_prefix

(***************************************************************************)
(* Claims about the nodes of the radix index.                              *)
(***************************************************************************)

\* insert(key, value) for a pair the index already holds
insert_again(key) == IndexNode_insert(root, key, get_value(key))

RECURSIVE verify_below(_)
verify_below(arr) ==
    /\ IndexNode_verify(arr)
    /\ \A i \in c_num_metadata_entries..(Array_size(arr) - 1) :
          Array_get(arr, i).k = "node" => verify_below(Array_get(arr, i).n)

\* C24: in every state reached by insert, erase, set and clear, inserts of
\* ObjKeys with the high bit set and inserts that split a prefix included,
\* no assertion has failed and the size of every index node is the five
\* metadata slots plus the number of bits of its two populations.
C24_VerifyNeverFails ==
    /\ ~aborted
    /\ verify_below(root)

\* what holds of the code: as long as no assertion has failed, every node
\* has the size its populations give
C24_VerifyHoldsWhileRunning == ~aborted => verify_below(root)

\* the lists of ObjKeys referenced from a node and from the nodes below it
RECURSIVE lists_below(_)
lists_below(arr) ==
    UNION {IF Array_get(arr, i).k = "list" THEN {Array_get(arr, i).l}
           ELSE IF Array_get(arr, i).k = "node" THEN lists_below(Array_get(arr, i).n)
           ELSE {} : i \in c_ndx_of_null..(Array_size(arr) - 1)}

strictly_ascending(l) == \A i \in 1..(Len(l) - 1) : l[i] < l[i + 1]

\* C25: in every state reached every list of ObjKeys of the index, the list
\* of the nulls included, is strictly ascending, in whatever order the
\* ObjKeys were inserted, and find_first returns the smallest ObjKey that
\* holds the value.
C25_ListsAscending ==
    ~aborted =>
        /\ \A l \in lists_below(root) : strictly_ascending(l)
        /\ \A m \in Values : \A key \in keys_of(m) : RadixTree_find_first(m) <= key

\* what holds of the code: no list holds an ObjKey twice
C25_ListsWithoutRepeats ==
    ~aborted =>
        \A l \in lists_below(root) : \A i, j \in 1..Len(l) : i # j => l[i] # l[j]

\* the values no ObjKey of the index holds yet
not_indexed(m) == IndexNode_find_first(root, m).m_key = null_key /\ keys_of(m) = {}

\* C26: the insert of an ObjKey with the high bit set under a non-null value
\* that has no entry yet fails no assertion and adds one slot holding a
\* one-element list: find_first of the value returns the ObjKey, its count
\* is 1, every node has the size its populations give, and every other
\* value is found as before.
C26_TombstoneInsertAddsList ==
    ~aborted =>
        \A key \in TombstoneKeys \ DOMAIN column :
            \A m \in {v \in Values : ~v.is_null /\ not_indexed(v)} :
                LET r == IndexNode_insert(root, key, m)
                IN  /\ r.ok
                    /\ verify_below(r.arr)
                    /\ IndexNode_find_first(r.arr, m).m_key = key
                    /\ num_matches(IndexNode_find_first(r.arr, m)) = 1
                    /\ \A v \in Values \ {m} :
                          IndexNode_find_all(r.arr, v) = IndexNode_find_all(root, v)

\* C27: after an erase no child of the index is a one-element list, unless
\* its ObjKey cannot be tagged.
C27_SingletonListsPromoted ==
    ~aborted =>
        \A l \in lists_below(root) :
            Len(l) = 1 => ~value_can_be_tagged_without_overflow(l[1])

\* the number of chunks of an integer key
num_chunks == (WordBits + ChunkWidth - 1) \div ChunkWidth

\* the chunks of a non-null key, from the first to the last
chunks_of(m) == [i \in 1..num_chunks |-> IndexKey_get(m.int, i - 1)]

\* the ObjKeys an entry holds
keys_in(rot) ==
    IF rot.k = "tagged" THEN {rot.v}
    ELSE IF rot.k = "list" THEN seq_to_set(rot.l)
    ELSE {}

\* every key stored below the node, whose own path is path, has the chunks
\* of the path, of the prefix of the node and of the population bit it is under
RECURSIVE prefix_matched_below(_, _)
prefix_matched_below(arr, path) ==
    \A chunk \in 0..(Pow2(ChunkWidth) - 1) :
        index_of(arr, chunk) # -1 =>
            LET rot == Array_get(arr, index_of(arr, chunk))
                here == Append(path \o get_prefix(arr), chunk)
            IN  IF rot.k = "node" THEN prefix_matched_below(rot.n, here)
                ELSE \A key \in keys_in(rot) :
                        /\ key \in DOMAIN column
                        /\ ~column[key].is_null
                        /\ chunks_of(column[key]) = here

\* no node below this one is empty
RECURSIVE no_empty_node_below(_)
no_empty_node_below(arr) ==
    \A i \in c_num_metadata_entries..(Array_size(arr) - 1) :
        Array_get(arr, i).k = "node" =>
            /\ ~IndexNode_is_empty(Array_get(arr, i).n)
            /\ no_empty_node_below(Array_get(arr, i).n)

\* the key diverges from the prefix of the root, which holds a key
splits_root(m) ==
    /\ ~m.is_null
    /\ ~IndexNode_is_empty(root)
    /\ get_prefix(root) # <<>>
    /\ common_prefix_len(get_prefix(root), chunks_of(m), 0) < Len(get_prefix(root))

\* the insert of a key that diverges inside the prefix of the root: the
\* prefix of the root becomes the common leading chunks, its former children
\* are in a sub node under the next chunk of the old prefix, which carries
\* the chunks after that one, the nulls stay in the root
split_as_described(m, r) ==
    LET old == get_prefix(root)
        common == common_prefix_len(old, chunks_of(m), 0)
        moved == Array_get(r.arr, index_of(r.arr, old[common + 1]))
    IN  /\ r.ok
        /\ get_prefix(r.arr) = SubSeq(old, 1, common)
        /\ Array_get(r.arr, c_ndx_of_null) = Array_get(root, c_ndx_of_null)
        /\ index_of(r.arr, old[common + 1]) # -1
        /\ moved.k = "node"
        /\ get_prefix(moved.n) = SubSeq(old, common + 2, Len(old))
        /\ Array_get(moved.n, c_ndx_of_null) = Ref0
        /\ SubSeq(moved.n, c_num_metadata_entries + 1, Len(moved.n))
              = SubSeq(root, c_num_metadata_entries + 1, Len(root))
        /\ get_population_0(moved.n) = get_population_0(root)
        /\ get_population_1(moved.n) = get_population_1(root)
        /\ \A v \in Values \ {m} : IndexNode_find_all(r.arr, v) = IndexNode_find_all(root, v)

\* C28: in every state reached the prefix of each node is matched by every
\* key stored below it and no node but the root is empty; an insert that
\* diverges inside the prefix of a node splits the node as described and
\* every key indexed before is still found.
C28_PrefixesMatchNoEmptyNodes ==
    ~aborted =>
        /\ prefix_matched_below(root, <<>>)
        /\ no_empty_node_below(root)
        /\ \A key \in LiveKeys \ DOMAIN column : \A m \in Values :
              splits_root(m) => split_as_described(m, IndexNode_insert(root, key, m))

\* what holds of the code: the prefixes are matched and a split is as
\* described; what fails is that no node but the root is empty
C28_PrefixesMatchSplitAsDescribed ==
    ~aborted =>
        /\ prefix_matched_below(root, <<>>)
        /\ \A key \in LiveKeys \ DOMAIN column : \A m \in Values :
              splits_root(m) => split_as_described(m, IndexNode_insert(root, key, m))

(***************************************************************************)
(* Claims about IndexKey.                                                  *)
(***************************************************************************)

\* ceil(64 / ChunkWidth)
num_chunks_per_int(width) == (Int64Bits + width - 1) \div width

\* the chunks IndexKey yields for a value, from the first to the last
chunk_sequence(width, m) ==
    [i \in 1..num_chunks_per_int(width) |->
        get([IndexKey(width, m) EXCEPT !.m_offset = i - 1]).value]

\* a is lexicographically smaller than b
lex_less(a, b) ==
    \E i \in 1..Min(Len(a), Len(b)) :
        /\ a[i] < b[i]
        /\ \A j \in 1..(i - 1) : a[j] = b[j]

\* the key has been read to its last chunk
read_to_last == ~index_key.key.m_mixed.is_null /\ is_last(index_key.key)

\* C22: for int64 values a < b, negative values included, the chunks read
\* for a are lexicographically smaller than the chunks of b.
C22_ChunkOrderIsNumericOrder ==
    read_to_last =>
        \A b \in Int64Values :
            w_signed_less(index_key.key.m_mixed.bits, b) =>
                lex_less(index_key.chunks,
                         chunk_sequence(index_key.key.ChunkWidth, [is_null |-> FALSE, bits |-> b]))

\* C22, as the code has it: the chunks of a are lexicographically smaller
\* than the chunks of b exactly when a < b as unsigned 64-bit numbers.
C22_ChunkOrderIsUnsignedOrder ==
    read_to_last =>
        \A b \in Int64Values :
            w_unsigned_less(index_key.key.m_mixed.bits, b) <=>
                lex_less(index_key.chunks,
                         chunk_sequence(index_key.key.ChunkWidth, [is_null |-> FALSE, bits |-> b]))

\* -2 has been read to its last chunk with ChunkWidth 6: its chunks are
\* smaller than those of -1 and larger than those of 1
C22_Witness ==
    /\ read_to_last
    /\ index_key.key.ChunkWidth = 6
    /\ index_key.key.m_mixed.bits = 1..63
    /\ Len(index_key.chunks) = 11
    /\ lex_less(index_key.chunks, chunk_sequence(6, [is_null |-> FALSE, bits |-> 0..63]))
    /\ lex_less(chunk_sequence(6, [is_null |-> FALSE, bits |-> {0}]), index_key.chunks)

\* C30: for every ChunkWidth in 4..10 and every int64 value IndexKey yields
\* ceil(64 / ChunkWidth) chunks, each below 2^ChunkWidth, the first being the
\* top ChunkWidth bits of the value; is_last is true exactly at the last of
\* them; a null key yields no chunk.
C30_ChunksOfAKey ==
    LET key == index_key.key IN
    IF key.m_mixed.is_null
    THEN /\ ~get(key).has_value
         /\ index_key.chunks = <<>>
         /\ is_last(key)
    ELSE /\ index_key.asserted
         /\ get(key).has_value
         /\ Len(index_key.chunks) = key.m_offset + 1
         /\ Len(index_key.chunks) <= num_chunks_per_int(key.ChunkWidth)
         /\ \A i \in 1..Len(index_key.chunks) :
               index_key.chunks[i] \in 0..(Pow2(key.ChunkWidth) - 1)
         /\ index_key.chunks[1] = w_value(w_shr(key.m_mixed.bits, Int64Bits - key.ChunkWidth))
         /\ is_last(key) <=> Len(index_key.chunks) = num_chunks_per_int(key.ChunkWidth)

\* 0xFFF000000000000 has been read to its last chunk, the seventh, with
\* ChunkWidth 10
C30_Witness ==
    /\ index_key.key.ChunkWidth = 10
    /\ index_key.key.m_mixed.bits = 48..59
    /\ is_last(index_key.key)
    /\ index_key.chunks = <<63, 1008, 0, 0, 0, 0, 0>>

(***************************************************************************)
(* Claims about the populations of an IndexNode.                           *)
(***************************************************************************)

\* the slot of a chunk: the metadata slots and the entries of smaller chunks
slot_of(chunks, chunk) ==
    c_num_metadata_entries + Cardinality({c \in chunks : c < chunk})

\* the population word that has the bits of the chunks from base on
RECURSIVE population_of(_, _)
population_of(chunks, base) ==
    IF chunks = {} THEN 0
    ELSE Pow2((CHOOSE c \in chunks : TRUE) - base)
            + population_of(chunks \ {CHOOSE c \in chunks : TRUE}, base)

\* the two populations are those of the chunks: the chunks below the width
\* of a tagged word in population_0, the others in population_1
populations_are(arr, chunks) ==
    /\ get_population_0(arr) = population_of({c \in chunks : c < WordBits - 1}, 0)
    /\ get_population_1(arr) = population_of({c \in chunks : c >= WordBits - 1}, WordBits - 1)

\* C29: for every population and every chunk, index_of and
\* do_insert_to_population give the slot of the chunk, which is 5 plus the
\* number of populated chunks below it, so that the entries are in
\* ascending chunk order; index_of gives none iff the bit of the chunk is
\* clear; the chunks below 63 (here: below 7) are in population_0, the
\* others in population_1; do_remove clears the bit of the slot it erases.
C29_SlotsFollowPopulation ==
    /\ populations_are(index_node.arr, index_node.chunks)
    /\ Array_size(index_node.arr) = c_num_metadata_entries + Cardinality(index_node.chunks)
    /\ \A chunk \in AllChunks :
          IF chunk \in index_node.chunks
          THEN /\ index_of(index_node.arr, chunk) = slot_of(index_node.chunks, chunk)
               /\ Array_get(index_node.arr, slot_of(index_node.chunks, chunk)) = Tagged(chunk)
               /\ do_insert_to_population(index_node.arr, chunk) =
                     [arr |-> index_node.arr, did_exist |-> TRUE,
                      real_index |-> slot_of(index_node.chunks, chunk)]
               /\ populations_are(do_remove(index_node.arr, index_of(index_node.arr, chunk)),
                                  index_node.chunks \ {chunk})
          ELSE /\ index_of(index_node.arr, chunk) = -1
               /\ ~do_insert_to_population(index_node.arr, chunk).did_exist
               /\ do_insert_to_population(index_node.arr, chunk).real_index
                     = slot_of(index_node.chunks, chunk)
               /\ populations_are(do_insert_to_population(index_node.arr, chunk).arr,
                                  index_node.chunks \cup {chunk})

\* the node has entries for the chunks 1, 4 and 7, after the entry of a
\* chunk between them was removed
C29_Witness ==
    /\ index_node.chunks = {1, 4, 7}
    /\ get_population_1(index_node.arr) = 1
    /\ Array_size(index_node.arr) = 8

(***************************************************************************)
(* Claims about transactions.                                              *)
(***************************************************************************)

\* the state of the tables immediately after the commit of a version
state_as_of(version) ==
    (CHOOSE h \in {this_db.history[i] : i \in 1..Len(this_db.history)} :
        h.version = version).state

reading_txns == {t \in Txns : this_db.txns[t].stage = "reading"}

writing_txns == {t \in Txns : this_db.txns[t].stage = "writing"}

\* C23: a read transaction bound to a version observes for every table the
\* state as of the commit of that version, whatever was committed since;
\* at most one write transaction is active; the versions of the commits
\* increase strictly.
C23_SnapshotIsolation ==
    /\ \A t \in reading_txns :
          observable_state(this_db, this_db.txns[t].top_ref)
             = state_as_of(this_db.txns[t].version)
    /\ Cardinality(writing_txns) <= 1
    /\ \A i, j \in 1..Len(this_db.history) :
          i < j => this_db.history[i].version < this_db.history[j].version

\* a reader is bound to version 1 and sees no object although two later
\* commits have put objects into both tables, the second one on refs that
\* were freed and allocated again; another write transaction is active
C23_Witness ==
    /\ \E t \in reading_txns :
          /\ this_db.txns[t].version = 1
          /\ observable_state(this_db, this_db.txns[t].top_ref) = [tb \in DbTables |-> 0]
    /\ latest_version(this_db) >= 3
    /\ \A tb \in DbTables :
          observable_state(this_db, this_db.snapshots[latest_version(this_db)])[tb] > 0
    /\ writing_txns # {}

(***************************************************************************)
(* Claims about the marker over a sequence of resets.                      *)
(***************************************************************************)

\* the precheck of the reset under way has succeeded
precheck_succeeded == pc \in {"recover_remote", "transfer", "commit", "recover_local"}

\* the table has exactly one row, of metadata version 1
one_marker_of_version_1(tables) ==
    /\ metadata_size(tables) = 1
    /\ first_object(tables[s_meta_reset_table_name])[s_version_column_name] = 1

commits_made == flx_reset.commits

\* the reset recovers: FLX recovery, since every reset here has a store
flx_recovery == recover_local_changes(mode) /\ pc \notin {"idle"} /\ thrown_by # "reset_precheck_guard"

\* the state the replay leaves: every local changeset applied to the tables
\* of the first commit, every pending subscription after the remade set
fully_replayed(c) ==
    /\ c.tables = process_changesets(local_changes, commits_made[1].tables)
    /\ c.subs = replay_subscriptions(remake_active_subscription(flx_reset.subs_before),
                                     get_pending_subscriptions(flx_reset.subs_before))

\* C32: in a flexible-sync reset with recovery the first commit carries the
\* original file ident and the subscription sets as they were; the active
\* set is recreated after it; the new file ident is in the final commit
\* only, which holds every local changeset and pending subscription
\* replayed; when the replay fails no commit carries the new ident.
C32_NewIdentInFinalCommitOnly ==
    flx_recovery =>
        /\ commits_made # <<>> =>
              /\ commits_made[1].file_ident = frozen_pre_local_state.file_ident
              /\ commits_made[1].subs = flx_reset.subs_before
        /\ pc = "remake" => flx_reset.subs = flx_reset.subs_before
        /\ pc = "recover_local" =>
              /\ get_active(flx_reset.subs) = Len(flx_reset.subs_before) + 1
              /\ get_pending_subscriptions(flx_reset.subs) = <<>>
              /\ db_local.file_ident = frozen_pre_local_state.file_ident
        /\ \A i \in 1..Len(commits_made) :
              commits_made[i].file_ident = flx_reset.client_file_ident =>
                 /\ i = 2
                 /\ Len(commits_made) = 2
                 /\ pc = "done"
                 /\ fully_replayed(commits_made[i])
        /\ pc = "done" => Len(commits_made) = 2 /\ db_local.file_ident = flx_reset.client_file_ident
        /\ pc = "failed" =>
              /\ db_local.file_ident = frozen_pre_local_state.file_ident
              /\ db_local.file_ident # flx_reset.client_file_ident

\* a recovery has gone through: a local changeset and a pending
\* subscription were replayed after the first commit
C32_Witness ==
    /\ flx_recovery
    /\ pc = "done"
    /\ local_changes # <<>>
    /\ flx_reset.pending_subscriptions # <<>>
    /\ commits_made[2].tables # commits_made[1].tables
    /\ db_local.file_ident = "fresh"

\* C32, second case: the replay has failed after the first commit
C32_WitnessReplayFailed ==
    /\ flx_recovery
    /\ pc = "failed"
    /\ thrown_by = "process_changesets"
    /\ Len(commits_made) = 1

(***************************************************************************)
(* Claims about a reset the server allows no recovery for.                 *)
(***************************************************************************)

\* *did_recover_out = recover_local_changes, once the reset is done
did_recover == recover_local_changes(mode)

\* a reset was called without recovery allowed, and the marker the file
\* held, if any, did not make the precheck throw
recovery_refused(m) ==
    /\ pc # "idle"
    /\ ~recovery_is_allowed
    /\ requested_mode = m
    /\ ~previous_throws(has_pending_reset(frozen_pre_local_state.tables), m)

\* C33: without recovery allowed and without a marker that blocks the
\* reset, a reset in Recover mode fails with ClientResetFailed and no marker
\* is recorded; a reset in RecoverOrDiscard mode runs as DiscardLocal,
\* records a DiscardLocal marker and reports did_recover = false.
C33_RecoveryNotAllowed ==
    /\ recovery_refused("Recover") =>
          /\ pc = "failed"
          /\ outcome = "ClientResetFailed"
          /\ thrown_by = "reset_precheck_guard"
          /\ has_pending_reset(wt_local.tables) = NoPending
          /\ has_pending_reset(db_local.tables) = NoPending
    /\ recovery_refused("RecoverOrDiscard") =>
          /\ mode = "DiscardLocal"
          /\ thrown_by # "reset_precheck_guard"
          /\ pc # "recover_remote" /\ pc # "recover_local"
          /\ has_pending_reset(wt_local.tables) = Pending("DiscardLocal")
          /\ pc = "done" =>
                /\ outcome = "ok"
                /\ ~did_recover
                /\ recorded(db_local) = Pending("DiscardLocal")

\* a reset in RecoverOrDiscard mode has gone through as DiscardLocal on a
\* file without a marker, the server allowing no recovery
C33_Witness ==
    /\ recovery_refused("RecoverOrDiscard")
    /\ has_pending_reset(frozen_pre_local_state.tables) = NoPending
    /\ pc = "done"
    /\ ~did_recover

\* C33, second case: a reset in Recover mode has been refused
C33_WitnessRefused ==
    /\ recovery_refused("Recover")
    /\ pc = "failed"

(***************************************************************************)
(* Claims about the tables transfer_group leaves alone.                    *)
(***************************************************************************)

\* the tables of a group whose name lacks the prefix "class_"
non_public_part(tables) == [n \in {x \in DOMAIN tables : ~table_is_public(x)} |-> tables[n]]

metadata_table_name == <<"", "metadata">>

\* the source group as it is, and with tables that are not public: a table
\* "metadata" and a table client_reset_metadata with a marker of its own
sources_with_non_public(group_src) ==
    { group_src,
      [n \in (DOMAIN group_src) \cup {metadata_table_name, s_meta_reset_table_name} |->
          IF n \in DOMAIN group_src THEN group_src[n]
          ELSE IF n = metadata_table_name THEN TopLevel("id", BaseCols, {1}, 1)
          ELSE create_marker(new_metadata_table, 2, "Recover")] }

\* transfer_group leaves the non-public tables of group_dst as they are and
\* gives it none of those of group_src, whether it returns or throws
non_public_untouched(group_src, group_dst, allow_schema_additions) ==
    non_public_part(transfer_group(group_src, group_dst, allow_schema_additions).group)
        = non_public_part(group_dst)

evaluated_normally ==
    /\ call.name \in {"get_any", "clear"}
    /\ call.thrown \in {"none", "OutOfBounds"}

\* Results in mode Query, or over a list of links with descriptors to apply
to_be_materialized(r, rm) ==
    \/ r.mode = "Query"
    \/ r.mode = "Collection" /\ rm.list_of_objects /\ r.ordering # <<>>

\* a step that is a call on the Results (and not the caller moving on to
\* the Results a call returned)
same_Results == ~(derived.mode # "none" /\ results' = derived /\ derived' = NoResults)

\* C35: after an operation that evaluates in Normal mode, Results that were
\* in mode Query, or in mode Collection over objects with descriptors, are in
\* mode TableView, and the branch of get_any for Mode::Query is never taken;
\* size() leaves Results in mode Query without a distinct descriptor in mode
\* Query; Results in mode TableView stay in mode TableView.
C35_EvaluationMaterializes ==
    /\ [](/\ (evaluated_normally /\ to_be_materialized(call.before, call.at))
                => results.mode = "TableView"
          /\ call.name = "get_any" => call.value # Unreachable
          /\ (/\ call.name = "size" /\ call.thrown = "none"
              /\ call.before.mode = "Query"
              /\ ~will_apply(call.before.ordering, "Distinct"))
                => results.mode = "Query")
    /\ [][(results.mode = "TableView" /\ same_Results) => results'.mode = "TableView"]_vars

C35_Witness ==
    /\ evaluated_normally
    /\ call.before.mode = "Collection" /\ call.at.list_of_objects
    /\ call.before.ordering # <<>>
    /\ results.mode = "TableView"
    /\ Len(results.table_view.keys) = 2

C35_WitnessQuery ==
    /\ evaluated_normally
    /\ call.before.mode = "Query"
    /\ results.mode = "TableView"

C35_WitnessSize ==
    /\ call.name = "size" /\ call.thrown = "none"
    /\ call.before.mode = "Query"
    /\ results.mode = "Query"

\* C36: Results with the update policy Never are in mode TableView and have
\* no notifier, whichever calls made them; add_notification_callback on them
\* throws LogicError and creates no notifier.
C36_NeverIsTableView ==
    /\ \A r \in {results, derived} :
        (r.mode # "none" /\ r.update_policy = "Never")
            => (r.mode = "TableView" /\ ~r.notifier)
    /\ (call.name = "add_notification_callback" /\ call.before.update_policy = "Never")
            => (call.thrown = "LogicError" /\ ~results.notifier)

C36_Witness ==
    /\ call.name = "add_notification_callback"
    /\ call.before.update_policy = "Never"
    /\ call.thrown = "LogicError"
    /\ results.mode = "TableView"

\* C39: get_dictionary_element(i) on Results over a dictionary with
\* descriptors returns the pair whose value get_any(i) returns, and throws
\* OutOfBounds for i at or beyond size().
C39_DictionaryElementIsSorted ==
    call.name = "get_dictionary_element" =>
        /\ call.thrown = "none" => call.value.value = get_any(results, call.at, call.arg)
        /\ call.arg > do_size(results, call.at) => call.thrown = "OutOfBounds"

\* the part of C39 about positions that are out of range
C39_OutOfRangeThrows ==
    call.name = "get_dictionary_element" =>
        (call.arg > do_size(results, call.at) <=> call.thrown = "OutOfBounds")
\* ------------------------------------------------------------------------
\* Claims about TableView
\* ------------------------------------------------------------------------

\* the Realm after TableView::clear of the view
realm_after_clear(tv, rm) ==
    [rm EXCEPT !.rows = TableView_clear(tv, rm).rows,
               !.list = links_kept(rm, TableView_clear(tv, rm).rows)]

\* the views clear() can be called on: that of Results in mode TableView
\* whose table is there
view_to_clear == results.mode = "TableView" /\ realm.table_attached

objects_listed(tv, rm) == {tv.keys[i] : i \in 1..Len(tv.keys)} \cap DOMAIN rm.rows

\* clear() removes the valid objects the view lists, and only those, and
\* leaves no invalid key in the view
removes_what_is_listed(tv, rm) ==
    /\ DOMAIN TableView_clear(tv, rm).rows = DOMAIN rm.rows \ objects_listed(tv, rm)
    /\ \A k \in DOMAIN TableView_clear(tv, rm).rows : TableView_clear(tv, rm).rows[k] = rm.rows[k]
    /\ \A i \in 1..Len(TableView_clear(tv, rm).tv.keys) :
            is_valid_key(realm_after_clear(tv, rm), TableView_clear(tv, rm).tv.keys[i])

in_sync_after_clear(tv, rm) == is_in_sync(TableView_clear(tv, rm).tv, realm_after_clear(tv, rm))

\* C37: TableView::clear() removes every valid object the view lists and
\* keeps no invalid key; a view out of sync before it is out of sync after
\* it; the view is in sync after it only if it was in sync before and no
\* distinct descriptor is applied.
C37_ClearKeepsOutOfSync ==
    view_to_clear =>
        /\ removes_what_is_listed(results.table_view, realm)
        /\ ~is_in_sync(results.table_view, realm) => ~in_sync_after_clear(results.table_view, realm)
        /\ in_sync_after_clear(results.table_view, realm) =>
                /\ is_in_sync(results.table_view, realm)
                /\ ~will_apply(results.table_view.ordering, "Distinct")

\* C37 as amended: the view is in sync after clear() only if it was in sync
\* before and either no distinct descriptor is applied or the view listed no
\* valid object, so that nothing was removed; the rest as above.
C37_ClearKeepsOutOfSyncUnlessEmpty ==
    view_to_clear =>
        /\ removes_what_is_listed(results.table_view, realm)
        /\ ~is_in_sync(results.table_view, realm) => ~in_sync_after_clear(results.table_view, realm)
        /\ in_sync_after_clear(results.table_view, realm) =>
                /\ is_in_sync(results.table_view, realm)
                /\ \/ ~will_apply(results.table_view.ordering, "Distinct")
                   \/ objects_listed(results.table_view, realm) = {}
        /\ (/\ is_in_sync(results.table_view, realm)
            /\ ~will_apply(results.table_view.ordering, "Distinct"))
                => in_sync_after_clear(results.table_view, realm)

\* a view out of sync that lists a removed object and objects still there
C37_Witness ==
    /\ view_to_clear
    /\ ~is_in_sync(results.table_view, realm)
    /\ objects_listed(results.table_view, realm) # {}
    /\ \E i \in 1..Len(results.table_view.keys) : ~is_valid_key(realm, results.table_view.keys[i])
    /\ ~in_sync_after_clear(results.table_view, realm)

\* a view in sync with a distinct descriptor that lists objects
C37_WitnessDistinct ==
    /\ view_to_clear
    /\ is_in_sync(results.table_view, realm)
    /\ will_apply(results.table_view.ordering, "Distinct")
    /\ objects_listed(results.table_view, realm) # {}
    /\ ~in_sync_after_clear(results.table_view, realm)

\* the positions of the view whose key is not null, whose object exists and
\* whose value is not null
qualifying(tv, rm) ==
    {i \in 1..Len(tv.keys) :
        /\ tv.keys[i] # null_key
        /\ tv.keys[i] \in DOMAIN rm.rows
        /\ tv.keys[i] \notin rm.nulls}

RECURSIVE sum_over(_, _, _)
sum_over(tv, rm, I) ==
    IF I = {} THEN 0
    ELSE LET i == CHOOSE i \in I : TRUE
         IN  rm.rows[tv.keys[i]] + sum_over(tv, rm, I \ {i})

values_over(tv, rm, I) == {rm.rows[tv.keys[i]] : i \in I}

supported(action, col) ==
    /\ ~col.collection
    /\ \/ col.type = "Int"
       \/ col.type = "Timestamp" /\ action \in {"act_Min", "act_Max"}

C38_WitnessNone ==
    /\ call.name = "act_Min"
    /\ call.before.table_view.keys = <<StaleKey, 0>>
    /\ call.at.nulls = {0}
    /\ call.value.result = Mixed_null

C38_WitnessNoResult ==
    /\ call.name = "act_Sum"
    /\ call.at.column.type = "Timestamp"
    /\ call.value.result = NoResult

====
